---- MODULE Spec2Model ----
(***************************************************************************)
(* The ingestion pipeline of the dictionary API: scripts/upload.js (LIFT   *)
(* upload with embedding reuse and file backups) and scripts/rollback.js   *)
(* (restore of a backup snapshot), run one after the other by a single     *)
(* operator against one document store, one backup directory and one       *)
(* on-disk embedding cache.                                                *)
(*                                                                         *)
(* A JavaScript string is a sequence of one-character strings; null and    *)
(* the empty string are both the empty sequence (every text field of the   *)
(* scripts is read through `x || null`, `x || ''`, filter(Boolean) or a    *)
(* truthiness test, which treat the two alike).                            *)
(***************************************************************************)
EXTENDS Integers, Sequences, FiniteSets, TLC

\* ------------------------------------------------------------------ bounds
MaxRuns == 2        \* script runs that get past argument validation
MaxFaults == 1      \* I/O failures injected by the environment
MaxIndexArg == 3    \* largest numeric argument given to rollback.js
DayLen == 3         \* clock ticks per calendar day
TzTicks == 2        \* offset of local time from UTC when a session starts, in ticks
MaxSourceLen == 4   \* longest source text given to formatSource on its own
MaxEntries == 2     \* longest array of parsed trees given to extractEntries on its own
MaxRequests == 2    \* concurrent requests that call getWordOfTheDay
MaxTicks == 3       \* clock ticks that pass while these requests are in flight

\* ------------------------------------------------------------ JS strings
NullText == <<>>
SP == <<" ">>

WordChars == {"a", "b", "c", "e", "g", "h", "i", "l", "m", "n", "o", "r",
              "s", "t", "u", "v", "w", "y", "N", "O", "S", "_", "1", "2"}

NormaNelson == <<"N", "o", "r", "m", "a", " ", "N", "e", "l", "s", "o", "n">>

\* Array.prototype.join(' ') over an array of strings (null joins as '')
RECURSIVE Join(_)
Join(parts) ==
  IF parts = <<>> THEN <<>>
  ELSE IF Len(parts) = 1 THEN Head(parts)
  ELSE Head(parts) \o SP \o Join(Tail(parts))

\* Array.prototype.filter(Boolean) over an array of strings
FilterBoolean(parts) == SelectSeq(parts, LAMBDA t : t # NullText)

\* \bnn\b matches at position p of s
MatchesNN(s, p) ==
  /\ p + 1 <= Len(s)
  /\ s[p] = "n"
  /\ s[p + 1] = "n"
  /\ (p = 1 \/ s[p - 1] \notin WordChars)
  /\ (p + 2 > Len(s) \/ s[p + 2] \notin WordChars)

RECURSIVE ReplaceNN(_, _)
ReplaceNN(s, p) ==
  IF p > Len(s) THEN <<>>
  ELSE IF MatchesNN(s, p) THEN NormaNelson \o ReplaceNN(s, p + 2)
  ELSE <<s[p]>> \o ReplaceNN(s, p + 1)

formatSource(source) ==
  IF source = NullText THEN <<>> ELSE ReplaceNN(source, 1)

\* crypto.createHash('sha256').update(text).digest('hex'): one digest per
\* text, distinct texts have distinct digests
Sha256(text) == [sha256 |-> text]

\* ------------------------------------------------------------ embeddings
NoVector == [of |-> <<>>, gen |-> 0]

\* what the provider answers for a text at clock tick t
ProviderVector(text, t) == [of |-> text, gen |-> t]

NoEmbedding == [type |-> "none", data |-> NoVector]

vectorToBinary(vector) == [type |-> "Binary", data |-> vector]

\* ------------------------------------------------------- LIFT input files
Example(form, translation, source) ==
  [form |-> form, translation |-> translation, source |-> source, note |-> NullText]

Sense(gloss, definition, examples) ==
  [gloss |-> gloss, definition |-> definition, examples |-> examples]

EntryData(id, dateModified, word, senses) ==
  [id |-> id, dateModified |-> dateModified, word |-> word, senses |-> senses]

S1 == <<"s", "1">>
S2 == <<"s", "2">>
T1 == <<"t", "1">>
T2 == <<"t", "2">>
ByNN == <<"b", "y", " ", "n", "n">>
ConstructorText == <<"c", "o", "n", "s", "t", "r", "u", "c", "t", "o", "r">>
ToStringText == <<"t", "o", "S", "t", "r", "i", "n", "g">>
ValueOfText == <<"v", "a", "l", "u", "e", "O", "f">>
ProtoText == <<"_", "_", "p", "r", "o", "t", "o", "_", "_">>

EntryA ==
  EntryData("e1", "d1", <<"w", "a">>,
    << Sense(<<"g", "a">>, NullText, << Example(S1, T1, ByNN), Example(S1, T1, NullText) >>) >>)

EntryB ==
  EntryData("e2", "d1", <<"w", "b">>,
    << Sense(<<"g", "b">>, <<"h", "b">>, << Example(S1, T2, NullText), Example(S2, T2, NullText) >>) >>)

\* EntryB re-exported with a later dateModified, a new gloss and a new
\* translation of its second example
EntryB2 ==
  EntryData("e2", "d2", <<"w", "b">>,
    << Sense(<<"g", "c">>, <<"h", "b">>, << Example(S1, T2, NullText), Example(S2, T1, NullText) >>) >>)

EntryC ==
  EntryData("e3", "d1", <<"w", "c">>,
    << Sense(NullText, NullText, << Example(ConstructorText, T1, NullText) >>) >>)

\* a second entry with the word and the gloss of EntryA
EntryA2 ==
  EntryData("e4", "d1", <<"w", "a">>, << Sense(<<"g", "a">>, NullText, << >>) >>)

LiftFiles == {"v1.lift", "v2.lift", "proto.lift", "dup.lift", "twin.lift", "bad.lift"}

\* the entries a LIFT file holds; dup.lift holds one entry id twice, twin.lift
\* two entries with one word and gloss, bad.lift is not well-formed XML
LiftContent(file) ==
  CASE file = "v1.lift" -> << EntryA, EntryB >>
    [] file = "v2.lift" -> << EntryA, EntryB2 >>
    [] file = "proto.lift" -> << EntryC >>
    [] file = "dup.lift" -> << EntryA, EntryA >>
    [] file = "twin.lift" -> << EntryA, EntryA2 >>
    [] OTHER -> << >>

WellFormed(file) == file # "bad.lift"

\* ------------------------------------------------------ pure helpers
RECURSIVE Flatten(_)
Flatten(ss) == IF ss = <<>> THEN <<>> ELSE Head(ss) \o Flatten(Tail(ss))

Contains(s, x) == \E k \in 1..Len(s) : s[k] = x

\* uploadWords, the in-place formatting of every example's source and note
FormatExample(ex) ==
  [ex EXCEPT !.source = IF @ # NullText THEN formatSource(@) ELSE @,
             !.note = IF @ # NullText THEN formatSource(@) ELSE @]

FormatSense(sense) ==
  [sense EXCEPT !.examples = [k \in 1..Len(@) |-> FormatExample(@[k])]]

FormatEntry(entry) ==
  [entry EXCEPT !.senses = [k \in 1..Len(@) |-> FormatSense(@[k])]]

\* uploadWords, the text a word is embedded from
Glosses(entry) == [k \in 1..Len(entry.senses) |-> entry.senses[k].gloss]

Definitions(entry) == [k \in 1..Len(entry.senses) |-> entry.senses[k].definition]

TextToEmbedWord(entry) ==
  Join(<<entry.word>> \o FilterBoolean(Glosses(entry))
                      \o FilterBoolean(Definitions(entry)))

\* uploadSentences, the text a sentence is embedded from
TextToEmbedSentence(sentence) == sentence.text \o SP \o sentence.translation

\* the (entry id, example) pairs in the order the three nested loops of
\* uploadSentences visit them
ExamplesOfEntry(entry) ==
  LET examples == Flatten([k \in 1..Len(entry.senses) |-> entry.senses[k].examples])
  IN [k \in 1..Len(examples) |-> [word_id |-> entry.id, example |-> examples[k]]]

AllExamples(entries) == Flatten([k \in 1..Len(entries) |-> ExamplesOfEntry(entries[k])])

\* property names every `{}` inherits from Object.prototype (a part of them);
\* sentencesMap[name] is truthy for these although no record was stored
ObjectPrototypeKeys == {ConstructorText, ToStringText, ValueOfText, ProtoText}

\* position of the record stored under a text in sentencesMap, 0 if none
OwnKey(records, text) ==
  IF \E k \in 1..Len(records) : records[k].text = text
  THEN CHOOSE k \in 1..Len(records) : records[k].text = text
  ELSE 0

NewSentence(text, example) ==
  [id |-> Sha256(text), text |-> text, translation |-> example.translation,
   word_ids |-> <<>>, source |-> formatSource(example.source)]

\* uploadSentences, the loop that fills sentencesMap; threw is the TypeError
\* of reading .word_ids.includes on an inherited property
RECURSIVE ExtractSentences(_, _)
ExtractSentences(pairs, acc) ==
  IF pairs = <<>> \/ acc.threw THEN acc
  ELSE
    LET p == Head(pairs)
        sentenceText == p.example.form
        k == OwnKey(acc.records, sentenceText)
        truthy == k # 0 \/ sentenceText \in ObjectPrototypeKeys
        created == IF truthy THEN acc.records
                   ELSE Append(acc.records, NewSentence(sentenceText, p.example))
        j == OwnKey(created, sentenceText)
    IN IF sentenceText = NullText THEN ExtractSentences(Tail(pairs), acc)
       ELSE IF j = 0 THEN [threw |-> TRUE, records |-> created]
       ELSE ExtractSentences(Tail(pairs),
              [threw |-> FALSE,
               records |-> IF Contains(created[j].word_ids, p.word_id) THEN created
                           ELSE [created EXCEPT ![j].word_ids = Append(@, p.word_id)]])

SentencesMap(entries) ==
  ExtractSentences(AllExamples(entries), [threw |-> FALSE, records |-> <<>>])

\* ------------------------------------------------------------- documents
Date(t) == [type |-> "Date", at |-> t]

WordDocument(entry, embedding, t) ==
  [id |-> entry.id, dateModified |-> entry.dateModified, word |-> entry.word,
   senses |-> entry.senses, embedding |-> embedding, created_at |-> Date(t)]

SentenceDocument(sentence, embedding, t) ==
  [id |-> sentence.id, text |-> sentence.text, translation |-> sentence.translation,
   word_ids |-> sentence.word_ids, source |-> sentence.source,
   embedding |-> embedding, created_at |-> Date(t)]

\* JSON.parse(JSON.stringify(doc)): a Binary comes back as its base64 string,
\* a Date as its ISO string; an absent field stays absent
JsonRoundTrip(doc) ==
  [doc EXCEPT !.embedding = IF @.type = "Binary" THEN [@ EXCEPT !.type = "String"] ELSE @,
              !.created_at = [@ EXCEPT !.type = "String"]]

ToJsonFile(docs) == [k \in 1..Len(docs) |-> JsonRoundTrip(docs[k])]

\* truthiness of doc.embedding
HasEmbedding(doc) == doc.embedding.type # "none"

\* ------------------------------------------------------------ the store
Colls == {"words", "sentences"}

EmptyCollection == [exists |-> FALSE, docs |-> <<>>, indexes |-> {}]

\* positions of the documents of docs whose id occurs earlier in docs
IdsDistinct(docs) == \A a, b \in 1..Len(docs) : docs[a].id = docs[b].id => a = b

\* collection.drop(); dropping a collection that does not exist rejects, and
\* both scripts' callers swallow the rejection
Drop(s, c) == [s EXCEPT ![c] = EmptyCollection]

\* collection.deleteMany({}): the documents go, the indexes stay
DeleteMany(s, c) == [s EXCEPT ![c].docs = <<>>]

\* collection.insertMany(docs): rejects on an empty batch and on a duplicate
\* key of a unique index, after inserting the documents before the duplicate
InsertManyThrows(s, c, docs) ==
  \/ docs = <<>>
  \/ "id_1" \in s[c].indexes /\ ~IdsDistinct(s[c].docs \o docs)

RECURSIVE InsertablePrefix(_, _)
InsertablePrefix(present, docs) ==
  IF docs = <<>> \/ ~IdsDistinct(present \o <<Head(docs)>>) THEN <<>>
  ELSE <<Head(docs)>> \o InsertablePrefix(present \o <<Head(docs)>>, Tail(docs))

InsertMany(s, c, docs) ==
  IF docs = <<>> THEN s
  ELSE [s EXCEPT ![c].exists = TRUE,
                 ![c].docs = @ \o (IF "id_1" \in s[c].indexes
                                   THEN InsertablePrefix(@, docs) ELSE docs)]

\* collection.createIndex: a unique index cannot be built over duplicates
CreateIndexThrows(s, c, name) == name = "id_1" /\ ~IdsDistinct(s[c].docs)

CreateIndex(s, c, name) ==
  [s EXCEPT ![c].exists = TRUE, ![c].indexes = @ \cup {name}]

WordIndexes == <<"id_1", "guid_1", "lexical_unit_1">>

SentenceIndexes == <<"id_1", "sentence_1">>

IndexesOf(c) == IF c = "words" THEN WordIndexes ELSE SentenceIndexes

\* createIndex for each name in turn, stopping at the first that throws
RECURSIVE CreateIndexes(_, _, _)
CreateIndexes(s, c, names) ==
  IF names = <<>> THEN [threw |-> FALSE, store |-> s]
  ELSE IF CreateIndexThrows(s, c, Head(names)) THEN [threw |-> TRUE, store |-> s]
  ELSE CreateIndexes(CreateIndex(s, c, Head(names)), c, Tail(names))

\* ------------------------------------------------- the backup directory
\* new Date().toISOString()...split('T')[0] + '_' + new Date().toTimeString():
\* the UTC calendar date followed by the local time of day
VARIABLE zone   \* the offset of local time from UTC now in force, in ticks

Timestamp(t) == [date |-> t \div DayLen, time |-> (t + zone) % DayLen]

Labels == {"", "before-rollback"}

BackupPath(c, ts, label) ==
  [coll |-> c, date |-> ts.date, time |-> ts.time, label |-> label]

EmptyMap == [k \in {} |-> 0]

MapSet(m, k, v) == [x \in DOMAIN m \cup {k} |-> IF x = k THEN v ELSE m[x]]

\* the regular expression of listBackupFiles takes everything between the
\* collection name and .json as the timestamp, the label included
ListedTimestamp(path) == [date |-> path.date, time |-> path.time, label |-> path.label]

\* a.localeCompare(b) < 0 on two listed timestamps
TimestampBefore(a, b) ==
  \/ a.date < b.date
  \/ a.date = b.date /\ a.time < b.time
  \/ a.date = b.date /\ a.time = b.time /\ a.label = "" /\ b.label # ""

RECURSIVE SortNewestFirst(_)
SortNewestFirst(S) ==
  IF S = {} THEN <<>>
  ELSE LET top == CHOOSE x \in S : \A y \in S \ {x} : TimestampBefore(y, x)
       IN <<top>> \o SortNewestFirst(S \ {top})

listBackupFiles(files) ==
  LET stamps == {ListedTimestamp(path) : path \in DOMAIN files}
      Row(ts) == [timestamp |-> ts,
                  words |-> BackupPath("words", ts, ts.label) \in DOMAIN files,
                  sentences |-> BackupPath("sentences", ts, ts.label) \in DOMAIN files]
      sorted == SortNewestFirst(stamps)
  IN [k \in 1..Len(sorted) |-> Row(sorted[k])]

\* ------------------------------------------------- the embedding cache
CachePath(cacheName, text) == [cacheName |-> cacheName, hash |-> Sha256(text)]

\* getCachedEmbedding without its writeFileSync
getCachedEmbeddingNoWrite(files, text, cacheName, t, providerOk) ==
  LET cachePath == CachePath(cacheName, text)
      readable == cachePath \in DOMAIN files /\ ~files[cachePath].corrupt
      found == IF cachePath \notin DOMAIN files THEN "absent"
               ELSE IF files[cachePath].corrupt THEN "corrupt" ELSE "readable"
  IN IF readable
     THEN [threw |-> FALSE, embedding |-> files[cachePath].embedding,
           files |-> files, provider |-> 0, found |-> found]
     ELSE IF providerOk
     THEN [threw |-> FALSE, embedding |-> ProviderVector(text, t),
           files |-> files, provider |-> 1, found |-> found]
     ELSE [threw |-> TRUE, embedding |-> NoVector, files |-> files, provider |-> 1,
           found |-> found]

\* getCachedEmbedding returning whatever an existing file holds, parsed or not
getCachedEmbeddingTrustsFile(files, text, cacheName, t, providerOk) ==
  LET cachePath == CachePath(cacheName, text)
      embedding == ProviderVector(text, t)
      found == IF cachePath \notin DOMAIN files THEN "absent"
               ELSE IF files[cachePath].corrupt THEN "corrupt" ELSE "readable"
  IN IF cachePath \in DOMAIN files
     THEN [threw |-> FALSE, embedding |-> files[cachePath].embedding,
           files |-> files, provider |-> 0, found |-> found]
     ELSE IF providerOk
     THEN [threw |-> FALSE, embedding |-> embedding,
           files |-> MapSet(files, cachePath,
                            [text |-> text, embedding |-> embedding, corrupt |-> FALSE]),
           provider |-> 1, found |-> found]
     ELSE [threw |-> TRUE, embedding |-> NoVector, files |-> files, provider |-> 1,
           found |-> found]

\* getCachedEmbedding remembering a failed provider call as a cache file
getCachedEmbeddingRemembersFailure(files, text, cacheName, t, providerOk) ==
  LET cachePath == CachePath(cacheName, text)
      readable == cachePath \in DOMAIN files /\ ~files[cachePath].corrupt
      embedding == ProviderVector(text, t)
      found == IF cachePath \notin DOMAIN files THEN "absent"
               ELSE IF files[cachePath].corrupt THEN "corrupt" ELSE "readable"
  IN IF readable
     THEN [threw |-> FALSE, embedding |-> files[cachePath].embedding,
           files |-> files, provider |-> 0, found |-> found]
     ELSE IF providerOk
     THEN [threw |-> FALSE, embedding |-> embedding,
           files |-> MapSet(files, cachePath,
                            [text |-> text, embedding |-> embedding, corrupt |-> FALSE]),
           provider |-> 1, found |-> found]
     ELSE [threw |-> TRUE, embedding |-> NoVector,
           files |-> MapSet(files, cachePath,
                            [text |-> text, embedding |-> NoVector, corrupt |-> FALSE]),
           provider |-> 1, found |-> found]

\* getCachedEmbedding(text, cacheName) against the cache files files at clock
\* tick t; providerOk tells whether the provider answers or throws
getCachedEmbedding(files, text, cacheName, t, providerOk) ==
  LET cachePath == CachePath(cacheName, text)
      readable == cachePath \in DOMAIN files /\ ~files[cachePath].corrupt
      embedding == ProviderVector(text, t)
      found == IF cachePath \notin DOMAIN files THEN "absent"
               ELSE IF files[cachePath].corrupt THEN "corrupt" ELSE "readable"
  IN IF readable
     THEN [threw |-> FALSE, embedding |-> files[cachePath].embedding,
           files |-> files, provider |-> 0, found |-> found]
     ELSE IF providerOk
     THEN [threw |-> FALSE, embedding |-> embedding,
           files |-> MapSet(files, cachePath,
                            [text |-> text, embedding |-> embedding, corrupt |-> FALSE]),
           provider |-> 1, found |-> found]
     ELSE [threw |-> TRUE, embedding |-> NoVector, files |-> files, provider |-> 1,
           found |-> found]

\* ----------------------------------------------------------------- state
VARIABLES
  store,               \* collection name -> [exists, docs, indexes]
  backups,             \* files of BACKUP_DIR: path -> the JSON array it holds
  cache,               \* files of CACHE_DIR: path -> [text, embedding, corrupt]
  now,                 \* the clock, in ticks
  faults,              \* I/O failures injected so far
  script,              \* the script of the current or last run
  pc,                  \* where that run stands
  exitCode,            \* process.exit code of the last finished run, -1 before
  stderr,              \* the error that run has reported, "" if none
  liftFile,            \* upload.js main: liftFile
  doBackup,            \* upload.js main: doBackup
  timestamp,           \* the timestamp the run names its backup files with
  sourceWordsMap,      \* upload.js main: id -> prior word document
  sourceSentencesMap,  \* upload.js main: id -> prior sentence document
  entries,             \* upload.js main: the extracted entries
  i,                   \* records the running loop has processed
  documents,           \* uploadWords: documents
  sentences,           \* uploadSentences: sentences
  reusedEmbeddings,    \* counter of the running upload function
  newEmbeddings,       \* counter of the running upload function
  selectedTimestamp,   \* rollback.js main: selectedTimestamp
  resolution,          \* per record of the running loop: how its embedding was resolved
  written,             \* backup paths this run has written
  startStore,          \* the store as it was when this run passed validation
  snapshotOf,          \* timestamp -> the documents an upload snapshot step found
  call,                \* a function called on its own: its name and argument
  returned             \* what that call returned

dataVars == <<store, backups, cache>>

uploadVars == <<liftFile, doBackup, sourceWordsMap, sourceSentencesMap, entries, i,
                documents, sentences, reusedEmbeddings, newEmbeddings, resolution>>

vars == <<store, backups, cache, now, faults, script, pc, exitCode, stderr, liftFile, doBackup,
          timestamp, sourceWordsMap, sourceSentencesMap, entries, i, documents,
          sentences, reusedEmbeddings, newEmbeddings, selectedTimestamp, resolution,
          written, startStore, snapshotOf, call, returned, zone>>

\* the variables of a function called on its own
callVars == <<call, returned>>

NoCall == [fn |-> "none"]

NoResult == [done |-> FALSE]

NoTimestamp == [date |-> -1, time |-> 0]

NoSelection == [date |-> -1, time |-> 0, label |-> ""]

\* the documents, indexes and cache files a complete run of
\* `upload.js v1.lift --no-backup` at tick 0 leaves behind
DeployedEntries ==
  [k \in 1..Len(LiftContent("v1.lift")) |-> FormatEntry(LiftContent("v1.lift")[k])]

DeployedWord(entry) ==
  WordDocument(entry, vectorToBinary(ProviderVector(TextToEmbedWord(entry), 0)), 0)

DeployedSentence(sentence) ==
  SentenceDocument(sentence,
                   vectorToBinary(ProviderVector(TextToEmbedSentence(sentence), 0)), 0)

DeployedDocs(c) ==
  IF c = "words" THEN [k \in 1..Len(DeployedEntries) |-> DeployedWord(DeployedEntries[k])]
  ELSE LET records == SentencesMap(DeployedEntries).records
       IN [k \in 1..Len(records) |-> DeployedSentence(records[k])]

DeployedStore ==
  [c \in Colls |->
     [exists |-> TRUE, docs |-> DeployedDocs(c),
      indexes |-> {IndexesOf(c)[k] : k \in 1..Len(IndexesOf(c))}]]

DeployedCacheText(c, k) ==
  IF c = "words" THEN TextToEmbedWord(DeployedEntries[k])
  ELSE TextToEmbedSentence(SentencesMap(DeployedEntries).records[k])

DeployedCache ==
  LET paths == {CachePath(c, DeployedCacheText(c, k)) :
                  c \in Colls, k \in 1..2}
  IN [path \in paths |->
        [text |-> path.hash.sha256, embedding |-> ProviderVector(path.hash.sha256, 0),
         corrupt |-> FALSE]]

\* the snapshot files that run's backup step wrote, over a store the same
\* upload had filled before
DeployedTimestamp ==
  [date |-> 0, time |-> TzTicks % DayLen, label |-> ""]

DeployedBackups ==
  [path \in {BackupPath(c, DeployedTimestamp, "") : c \in Colls} |->
     ToJsonFile(DeployedDocs(path.coll))]

\* no script has run yet in this session
InitProcess ==
  /\ now = 0
  /\ zone = TzTicks
  /\ faults = 0
  /\ script = "none"
  /\ pc = "idle"
  /\ exitCode = -1
  /\ stderr = ""
  /\ liftFile = ""
  /\ doBackup = FALSE
  /\ timestamp = NoTimestamp
  /\ sourceWordsMap = EmptyMap
  /\ sourceSentencesMap = EmptyMap
  /\ entries = <<>>
  /\ i = 0
  /\ documents = <<>>
  /\ sentences = <<>>
  /\ reusedEmbeddings = 0
  /\ newEmbeddings = 0
  /\ selectedTimestamp = NoSelection
  /\ resolution = <<>>
  /\ written = {}
  /\ startStore = store

\* the first run ever, or a database an earlier upload --backup has filled
Init ==
  /\ \/ /\ store = [c \in Colls |-> EmptyCollection]
        /\ cache = EmptyMap
        /\ backups = EmptyMap
        /\ snapshotOf = EmptyMap
     \/ /\ store = DeployedStore
        /\ cache = DeployedCache
        /\ backups = DeployedBackups
        /\ snapshotOf = MapSet(EmptyMap, DeployedTimestamp,
                               [c \in Colls |-> DeployedDocs(c)])
  /\ InitProcess
  /\ call = NoCall
  /\ returned = NoResult

\* a fresh process: every local of main is at its initial value
FreshProcess ==
  /\ timestamp' = NoTimestamp
  /\ sourceWordsMap' = EmptyMap
  /\ sourceSentencesMap' = EmptyMap
  /\ entries' = <<>>
  /\ i' = 0
  /\ documents' = <<>>
  /\ sentences' = <<>>
  /\ reusedEmbeddings' = 0
  /\ newEmbeddings' = 0
  /\ resolution' = <<>>
  /\ written' = {}
  /\ startStore' = store

\* process.exit(code)
Exit(code) == pc' = "exited" /\ exitCode' = code

\* console.error(message) followed by process.exit(1)
Fail(message) == Exit(1) /\ stderr' = message

\* ------------------------------------------------------ scripts/upload.js
\* process.argv: the LIFT path ("" if none), whether --db or MONGO_DB names a
\* database, the backup flag ("" if none), and whether --help or -h is given
UploadArgs ==
  [lift : {"v1.lift"}, db : {TRUE}, backup : {"--backup", "--no-backup"}, help : {FALSE}]
  \cup [lift : {"v2.lift", "twin.lift", "bad.lift"}, db : {TRUE}, backup : {"--backup"},
        help : {FALSE}]
  \cup [lift : {"proto.lift", "dup.lift"}, db : {TRUE}, backup : {"--no-backup"},
        help : {FALSE}]
  \cup [lift : {"", "missing.lift", "v1.lift"}, db : BOOLEAN,
        backup : {"--backup", ""}, help : {FALSE}]
  \cup [lift : {"", "v1.lift"}, db : {TRUE}, backup : {"--backup", ""}, help : {TRUE}]

\* the argument checks of main without the one for the backup flag
UploadArgsRejectedNoFlagCheck(args) ==
  \/ args.lift = ""
  \/ args.lift \notin LiftFiles
  \/ ~args.db

\* main, the argument checks that end in process.exit(1)
UploadArgsRejected(args) ==
  \/ args.lift = ""
  \/ args.lift \notin LiftFiles
  \/ ~args.db
  \/ args.backup = ""

\* main, the message of the first check that fails
UploadArgsError(args) ==
  IF args.lift = "" THEN "No LIFT file specified"
  ELSE IF args.lift \notin LiftFiles THEN "File not found"
  ELSE IF ~args.db THEN "No database name specified"
  ELSE "Please specify --backup or --no-backup"

\* main without its setTimeout: the run goes from the checks to its first
\* step on the store
UploadStartNoDelay(args) ==
  IF args.help
  THEN [pc |-> "exited", exitCode |-> 0, stderr |-> "", liftFile |-> "", doBackup |-> FALSE]
  ELSE IF UploadArgsRejected(args)
  THEN [pc |-> "exited", exitCode |-> 1, stderr |-> UploadArgsError(args),
        liftFile |-> "", doBackup |-> FALSE]
  ELSE [pc |-> IF args.backup = "--backup" THEN "u_backup_words" ELSE "u_drop_words",
        exitCode |-> -1, stderr |-> "", liftFile |-> args.lift,
        doBackup |-> (args.backup = "--backup")]

\* main, where the argument handling leaves the process: --help exits 0 from
\* inside the loop over the arguments, a failed check exits 1, otherwise the
\* run goes on to the confirmation delay
UploadStart(args) ==
  IF args.help
  THEN [pc |-> "exited", exitCode |-> 0, stderr |-> "", liftFile |-> "", doBackup |-> FALSE]
  ELSE IF UploadArgsRejected(args)
  THEN [pc |-> "exited", exitCode |-> 1, stderr |-> UploadArgsError(args),
        liftFile |-> "", doBackup |-> FALSE]
  ELSE [pc |-> "u_wait", exitCode |-> -1, stderr |-> "", liftFile |-> args.lift,
        doBackup |-> (args.backup = "--backup")]

UploadStarted(args) ==
  LET start == UploadStart(args)
  IN /\ pc' = start.pc
     /\ exitCode' = start.exitCode
     /\ stderr' = start.stderr
     /\ liftFile' = start.liftFile
     /\ doBackup' = start.doBackup

\* main up to the confirmation delay; --help prints the usage and exits 0
\* from inside the loop over the arguments
UploadMain(args) ==
  /\ pc \in {"idle", "exited"}
  /\ script' = "upload"
  /\ UploadStarted(args)
  /\ pc' = "u_wait" => now < MaxRuns
  /\ FreshProcess
  /\ selectedTimestamp' = NoSelection
  /\ UNCHANGED <<dataVars, now, faults, snapshotOf>>

\* main, the five seconds of setTimeout and the connection to the database
UploadConfirmDelay ==
  /\ pc = "u_wait"
  /\ now' = now + 1
  /\ pc' = IF doBackup THEN "u_backup_words" ELSE "u_drop_words"
  /\ UNCHANGED <<dataVars, faults, script, stderr, exitCode, uploadVars, timestamp,
                 selectedTimestamp, written, startStore, snapshotOf>>

\* for (const doc of docs) map.set(doc.id, doc)
RECURSIVE BuildMap(_, _)
BuildMap(m, docs) ==
  IF docs = <<>> THEN m ELSE BuildMap(MapSet(m, Head(docs).id, Head(docs)), Tail(docs))

ExportOutcomes == {"ok", "read-throws", "write-throws"}

\* one try block of the backup step: countDocuments, find, the map for the
\* embedding reuse, writeFileSync; the catch logs and goes on
BackupStep(c, outcome, map) ==
  LET docs == store[c].docs
      path == BackupPath(c, Timestamp(now), "")
  IN /\ outcome # "ok" => docs # <<>> /\ faults < MaxFaults
     /\ faults' = IF outcome = "ok" THEN faults ELSE faults + 1
     /\ map' = IF outcome = "read-throws" THEN map ELSE BuildMap(map, docs)
     /\ IF outcome = "ok" /\ docs # <<>>
        THEN /\ backups' = MapSet(backups, path, ToJsonFile(docs))
             /\ written' = written \cup {path}
        ELSE UNCHANGED <<backups, written>>

UploadBackupWords(outcome) ==
  /\ pc = "u_backup_words"
  /\ timestamp' = Timestamp(now)
  /\ BackupStep("words", outcome, sourceWordsMap)
  /\ snapshotOf' = MapSet(snapshotOf,
                          [date |-> Timestamp(now).date, time |-> Timestamp(now).time,
                           label |-> ""],
                          [c \in Colls |-> store[c].docs])
  /\ pc' = "u_backup_sentences"
  /\ UNCHANGED <<store, cache, now, script, stderr, exitCode, liftFile, doBackup,
                 sourceSentencesMap, entries, i, documents, sentences,
                 reusedEmbeddings, newEmbeddings, selectedTimestamp, resolution,
                 startStore>>

UploadBackupSentences(outcome) ==
  /\ pc = "u_backup_sentences"
  /\ BackupStep("sentences", outcome, sourceSentencesMap)
  /\ pc' = "u_drop_words"
  /\ UNCHANGED <<store, cache, now, script, stderr, exitCode, liftFile, doBackup, timestamp,
                 sourceWordsMap, entries, i, documents, sentences,
                 reusedEmbeddings, newEmbeddings, selectedTimestamp, resolution,
                 startStore, snapshotOf>>

\* the drop of the words collection without its catch: a collection that does
\* not exist ends the run
UploadDropWordsNoCatch ==
  /\ pc = "u_drop_words"
  /\ IF store["words"].exists
     THEN /\ store' = Drop(store, "words")
          /\ pc' = "u_drop_sentences"
          /\ UNCHANGED <<exitCode, stderr>>
     ELSE /\ Fail("Upload failed")
          /\ UNCHANGED store
  /\ UNCHANGED <<backups, cache, now, faults, script, uploadVars, timestamp,
                 selectedTimestamp, written, startStore, snapshotOf>>

\* await wordsCollection.drop().catch(() => {})
UploadDropWords ==
  /\ pc = "u_drop_words"
  /\ store' = Drop(store, "words")
  /\ pc' = "u_drop_sentences"
  /\ UNCHANGED <<backups, cache, now, faults, script, stderr, exitCode, uploadVars, timestamp,
                 selectedTimestamp, written, startStore, snapshotOf>>

\* await sentencesCollection.drop().catch(() => {})
UploadDropSentences ==
  /\ pc = "u_drop_sentences"
  /\ store' = Drop(store, "sentences")
  /\ pc' = "u_parse"
  /\ UNCHANGED <<backups, cache, now, faults, script, stderr, exitCode, uploadVars, timestamp,
                 selectedTimestamp, written, startStore, snapshotOf>>

\* parseLiftFile and extractEntries; a parse error reaches the catch of main
UploadParse ==
  /\ pc = "u_parse"
  /\ IF WellFormed(liftFile)
     THEN /\ entries' = LiftContent(liftFile)
          /\ pc' = "u_words"
          /\ UNCHANGED <<exitCode, stderr>>
     ELSE /\ Fail("Upload failed")
          /\ UNCHANGED entries
  /\ UNCHANGED <<dataVars, now, faults, script, liftFile, doBackup, timestamp,
                 sourceWordsMap, sourceSentencesMap, i, documents, sentences,
                 reusedEmbeddings, newEmbeddings, selectedTimestamp, resolution,
                 written, startStore, snapshotOf>>

\* the reuse test of uploadWords without its dateModified comparison
ReusesWordEmbeddingById(map, entry) ==
  /\ entry.id \in DOMAIN map
  /\ HasEmbedding(map[entry.id])

\* uploadWords, the test that carries a prior embedding forward
ReusesWordEmbedding(map, entry) ==
  /\ entry.id \in DOMAIN map
  /\ HasEmbedding(map[entry.id])
  /\ map[entry.id].dateModified = entry.dateModified

\* uploadSentences, the test that carries a prior embedding forward
ReusesSentenceEmbedding(map, sentence) ==
  /\ sentence.id \in DOMAIN map
  /\ HasEmbedding(map[sentence.id])

\* the embedding branch without its reuse arm: every record goes to the cache
ResolveEmbeddingNoReuse(reuse, prior, text, cacheName, providerOk) ==
  LET r == getCachedEmbedding(cache, text, cacheName, now, providerOk)
  IN IF r.threw
     THEN [how |-> "failed", embedding |-> NoEmbedding, files |-> r.files, text |-> text,
           provider |-> r.provider, found |-> r.found]
     ELSE [how |-> "computed", embedding |-> vectorToBinary(r.embedding),
           files |-> r.files, text |-> text, provider |-> r.provider, found |-> r.found]

\* the embedding branch of both loops: reuse, or getCachedEmbedding inside a
\* try whose catch logs a warning and leaves the record without embedding
ResolveEmbedding(reuse, prior, text, cacheName, providerOk) ==
  LET r == getCachedEmbedding(cache, text, cacheName, now, providerOk)
  IN IF reuse
     THEN [how |-> "reused", embedding |-> prior, files |-> cache, text |-> NullText,
           provider |-> 0, found |-> "not looked up"]
     ELSE IF r.threw
     THEN [how |-> "failed", embedding |-> NoEmbedding, files |-> r.files, text |-> text,
           provider |-> r.provider, found |-> r.found]
     ELSE [how |-> "computed", embedding |-> vectorToBinary(r.embedding),
           files |-> r.files, text |-> text, provider |-> r.provider, found |-> r.found]

\* a provider failure is injected only where the provider is called
ProviderChoice(res, providerOk) ==
  providerOk \/ (faults < MaxFaults /\ res.how = "failed")

\* the loop of uploadWords without the try around getCachedEmbedding: the
\* rejection reaches the catch of main
UploadWordsStepNoCatch(providerOk) ==
  /\ pc = "u_words"
  /\ i < Len(entries)
  /\ LET entry == FormatEntry(entries[i + 1])
         reuse == ReusesWordEmbedding(sourceWordsMap, entry)
         prior == IF reuse THEN sourceWordsMap[entry.id].embedding ELSE NoEmbedding
         res == ResolveEmbedding(reuse, prior, TextToEmbedWord(entry), "words", providerOk)
     IN /\ ProviderChoice(res, providerOk)
        /\ faults' = IF res.how = "failed" THEN faults + 1 ELSE faults
        /\ cache' = res.files
        /\ entries' = [entries EXCEPT ![i + 1] = entry]
        /\ documents' = IF res.how = "failed" THEN documents
                        ELSE Append(documents, WordDocument(entry, res.embedding, now))
        /\ reusedEmbeddings' = IF res.how = "reused" THEN reusedEmbeddings + 1
                               ELSE reusedEmbeddings
        /\ newEmbeddings' = IF res.how = "computed" THEN newEmbeddings + 1
                            ELSE newEmbeddings
        /\ resolution' = Append(resolution,
                                [id |-> entry.id, how |-> res.how, text |-> res.text,
                                 provider |-> res.provider, found |-> res.found])
        /\ IF res.how = "failed" THEN Fail("Upload failed")
           ELSE UNCHANGED <<pc, exitCode, stderr>>
  /\ i' = i + 1
  /\ UNCHANGED <<store, backups, now, script, liftFile, doBackup, timestamp,
                 sourceWordsMap, sourceSentencesMap, sentences, selectedTimestamp,
                 written, startStore, snapshotOf>>

\* the loop of uploadWords with documents.push inside the try: an entry whose
\* embedding failed is left out of the batch
UploadWordsStepSkipsFailed(providerOk) ==
  /\ pc = "u_words"
  /\ i < Len(entries)
  /\ LET entry == FormatEntry(entries[i + 1])
         reuse == ReusesWordEmbedding(sourceWordsMap, entry)
         prior == IF reuse THEN sourceWordsMap[entry.id].embedding ELSE NoEmbedding
         res == ResolveEmbedding(reuse, prior, TextToEmbedWord(entry), "words", providerOk)
     IN /\ ProviderChoice(res, providerOk)
        /\ faults' = IF res.how = "failed" THEN faults + 1 ELSE faults
        /\ cache' = res.files
        /\ entries' = [entries EXCEPT ![i + 1] = entry]
        /\ documents' = IF res.how = "failed" THEN documents
                        ELSE Append(documents, WordDocument(entry, res.embedding, now))
        /\ reusedEmbeddings' = IF res.how = "reused" THEN reusedEmbeddings + 1
                               ELSE reusedEmbeddings
        /\ newEmbeddings' = IF res.how = "computed" THEN newEmbeddings + 1
                            ELSE newEmbeddings
        /\ resolution' = Append(resolution,
                                [id |-> entry.id, how |-> res.how, text |-> res.text,
                                 provider |-> res.provider, found |-> res.found])
  /\ i' = i + 1
  /\ UNCHANGED <<store, backups, now, script, stderr, pc, exitCode, liftFile, doBackup, timestamp,
                 sourceWordsMap, sourceSentencesMap, sentences, selectedTimestamp,
                 written, startStore, snapshotOf>>

\* uploadWords, one turn of the loop over entries
UploadWordsStep(providerOk) ==
  /\ pc = "u_words"
  /\ i < Len(entries)
  /\ LET entry == FormatEntry(entries[i + 1])
         reuse == ReusesWordEmbedding(sourceWordsMap, entry)
         prior == IF reuse THEN sourceWordsMap[entry.id].embedding ELSE NoEmbedding
         res == ResolveEmbedding(reuse, prior, TextToEmbedWord(entry), "words", providerOk)
     IN /\ ProviderChoice(res, providerOk)
        /\ faults' = IF res.how = "failed" THEN faults + 1 ELSE faults
        /\ cache' = res.files
        /\ entries' = [entries EXCEPT ![i + 1] = entry]
        /\ documents' = Append(documents, WordDocument(entry, res.embedding, now))
        /\ reusedEmbeddings' = IF res.how = "reused" THEN reusedEmbeddings + 1
                               ELSE reusedEmbeddings
        /\ newEmbeddings' = IF res.how = "computed" THEN newEmbeddings + 1
                            ELSE newEmbeddings
        /\ resolution' = Append(resolution,
                                [id |-> entry.id, how |-> res.how, text |-> res.text,
                                 provider |-> res.provider, found |-> res.found])
  /\ i' = i + 1
  /\ UNCHANGED <<store, backups, now, script, stderr, pc, exitCode, liftFile, doBackup, timestamp,
                 sourceWordsMap, sourceSentencesMap, sentences, selectedTimestamp,
                 written, startStore, snapshotOf>>

\* insertMany followed by the createIndex calls of an upload function; any
\* rejection reaches the catch of main
InsertAndIndex(c, docs) ==
  LET inserted == InsertMany(store, c, docs)
      indexed == CreateIndexes(inserted, c, IndexesOf(c))
  IN [threw |-> InsertManyThrows(store, c, docs) \/ indexed.threw,
      store |-> IF InsertManyThrows(store, c, docs) THEN inserted ELSE indexed.store]

\* uploadWords whose rejection is swallowed: main goes on to uploadSentences
UploadWordsInsertSwallowed ==
  /\ pc = "u_words"
  /\ i = Len(entries)
  /\ LET r == InsertAndIndex("words", documents)
     IN /\ store' = r.store
        /\ pc' = "u_extract" /\ UNCHANGED <<exitCode, stderr>>
  /\ UNCHANGED <<backups, cache, now, faults, script, uploadVars, timestamp,
                 selectedTimestamp, written, startStore, snapshotOf>>

\* uploadWords after the loop: insertMany and the three indexes
UploadWordsInsert ==
  /\ pc = "u_words"
  /\ i = Len(entries)
  /\ LET r == InsertAndIndex("words", documents)
     IN /\ store' = r.store
        /\ IF r.threw THEN Fail("Upload failed")
           ELSE pc' = "u_extract" /\ UNCHANGED <<exitCode, stderr>>
  /\ UNCHANGED <<backups, cache, now, faults, script, uploadVars, timestamp,
                 selectedTimestamp, written, startStore, snapshotOf>>

\* uploadSentences up to its first await: sentencesMap and Object.values
UploadSentencesExtract ==
  /\ pc = "u_extract"
  /\ LET m == SentencesMap(entries)
     IN IF m.threw
        THEN /\ Fail("Upload failed")
             /\ UNCHANGED sentences
        ELSE /\ sentences' = m.records
             /\ pc' = "u_sentences"
             /\ UNCHANGED <<exitCode, stderr>>
  /\ i' = 0
  /\ reusedEmbeddings' = 0
  /\ newEmbeddings' = 0
  /\ resolution' = <<>>
  /\ UNCHANGED <<dataVars, now, faults, script, liftFile, doBackup, timestamp,
                 sourceWordsMap, sourceSentencesMap, entries, documents,
                 selectedTimestamp, written, startStore, snapshotOf>>

\* the loop of uploadSentences with newEmbeddings++ after the try instead of
\* inside it
UploadSentencesStepCountsFailed(providerOk) ==
  /\ pc = "u_sentences"
  /\ i < Len(sentences)
  /\ LET sentence == sentences[i + 1]
         reuse == ReusesSentenceEmbedding(sourceSentencesMap, sentence)
         prior == IF reuse THEN sourceSentencesMap[sentence.id].embedding ELSE NoEmbedding
         res == ResolveEmbedding(reuse, prior, TextToEmbedSentence(sentence),
                                 "sentences", providerOk)
     IN /\ ProviderChoice(res, providerOk)
        /\ faults' = IF res.how = "failed" THEN faults + 1 ELSE faults
        /\ cache' = res.files
        /\ sentences' = [sentences EXCEPT
                           ![i + 1] = SentenceDocument(sentence, res.embedding, now)]
        /\ reusedEmbeddings' = IF res.how = "reused" THEN reusedEmbeddings + 1
                               ELSE reusedEmbeddings
        /\ newEmbeddings' = IF res.how = "reused" THEN newEmbeddings
                            ELSE newEmbeddings + 1
        /\ resolution' = Append(resolution,
                                [id |-> sentence.id, how |-> res.how, text |-> res.text,
                                 provider |-> res.provider, found |-> res.found])
  /\ i' = i + 1
  /\ UNCHANGED <<store, backups, now, script, stderr, pc, exitCode, liftFile, doBackup, timestamp,
                 sourceWordsMap, sourceSentencesMap, entries, documents,
                 selectedTimestamp, written, startStore, snapshotOf>>

\* uploadSentences, one turn of the loop over sentences
UploadSentencesStep(providerOk) ==
  /\ pc = "u_sentences"
  /\ i < Len(sentences)
  /\ LET sentence == sentences[i + 1]
         reuse == ReusesSentenceEmbedding(sourceSentencesMap, sentence)
         prior == IF reuse THEN sourceSentencesMap[sentence.id].embedding ELSE NoEmbedding
         res == ResolveEmbedding(reuse, prior, TextToEmbedSentence(sentence),
                                 "sentences", providerOk)
     IN /\ ProviderChoice(res, providerOk)
        /\ faults' = IF res.how = "failed" THEN faults + 1 ELSE faults
        /\ cache' = res.files
        /\ sentences' = [sentences EXCEPT
                           ![i + 1] = SentenceDocument(sentence, res.embedding, now)]
        /\ reusedEmbeddings' = IF res.how = "reused" THEN reusedEmbeddings + 1
                               ELSE reusedEmbeddings
        /\ newEmbeddings' = IF res.how = "computed" THEN newEmbeddings + 1
                            ELSE newEmbeddings
        /\ resolution' = Append(resolution,
                                [id |-> sentence.id, how |-> res.how, text |-> res.text,
                                 provider |-> res.provider, found |-> res.found])
  /\ i' = i + 1
  /\ UNCHANGED <<store, backups, now, script, stderr, pc, exitCode, liftFile, doBackup, timestamp,
                 sourceWordsMap, sourceSentencesMap, entries, documents,
                 selectedTimestamp, written, startStore, snapshotOf>>

\* uploadSentences after the loop: insertMany and the two indexes
UploadSentencesInsert ==
  /\ pc = "u_sentences"
  /\ i = Len(sentences)
  /\ LET r == InsertAndIndex("sentences", sentences)
     IN /\ store' = r.store
        /\ IF r.threw THEN Fail("Upload failed")
           ELSE pc' = "u_finish" /\ UNCHANGED <<exitCode, stderr>>
  /\ UNCHANGED <<backups, cache, now, faults, script, uploadVars, timestamp,
                 selectedTimestamp, written, startStore, snapshotOf>>

\* main after the uploads: the metadata index, the summary, process.exit(0)
UploadFinish ==
  /\ pc = "u_finish"
  /\ Exit(0)
  /\ UNCHANGED <<dataVars, now, faults, script, stderr, uploadVars, timestamp,
                 selectedTimestamp, written, startStore, snapshotOf>>

\* ---------------------------------------------------- scripts/rollback.js
\* a timestamp no backup file carries
NoSuchTimestamp == [date |-> 99, time |-> 0, label |-> ""]

ListedTimestamps(files) == {ListedTimestamp(path) : path \in DOMAIN files}

\* process.argv[2] (absent, all digits, or anything else) and MONGO_DB
RollbackArgs ==
  [db : BOOLEAN, type : {"none"}, index : {0}, timestamp : {NoSelection}]
  \cup [db : BOOLEAN, type : {"index"}, index : 0..MaxIndexArg, timestamp : {NoSelection}]
  \cup [db : BOOLEAN, type : {"timestamp"}, index : {0},
        timestamp : ListedTimestamps(backups) \cup {NoSuchTimestamp}]

\* the checks of main without the lookup of a timestamp argument
RollbackArgsRejectedNoLookup(args, list) ==
  \/ ~args.db
  \/ Len(list) = 0
  \/ args.type = "none"
  \/ args.type = "index" /\ ~(args.index - 1 >= 0 /\ args.index - 1 < Len(list))

\* main, the checks that end in process.exit(1)
RollbackArgsRejected(args, list) ==
  \/ ~args.db
  \/ Len(list) = 0
  \/ args.type = "none"
  \/ args.type = "index" /\ ~(args.index - 1 >= 0 /\ args.index - 1 < Len(list))
  \/ args.type = "timestamp" /\ ~(\E k \in 1..Len(list) : list[k].timestamp = args.timestamp)

\* main, the message of the first check that fails
RollbackArgsError(args, list) ==
  IF ~args.db THEN "MONGO_DB environment variable not set"
  ELSE IF Len(list) = 0 THEN "No backup files found"
  ELSE IF args.type = "none" THEN "Please specify a backup to restore"
  ELSE IF args.type = "index" THEN "Invalid backup number"
  ELSE "Backup with timestamp not found"

\* the selection of main counting from the oldest snapshot
SelectedTimestampOldestFirst(args, list) ==
  IF args.type = "index" THEN list[Len(list) + 1 - args.index].timestamp
  ELSE args.timestamp

\* main, the snapshot the argument selects
SelectedTimestamp(args, list) ==
  IF args.type = "index" THEN list[args.index].timestamp ELSE args.timestamp

\* main, where the argument handling leaves the process: a failed check
\* exits 1, otherwise the run goes on to the confirmation delay
RollbackStart(args, list) ==
  IF RollbackArgsRejected(args, list)
  THEN [pc |-> "exited", exitCode |-> 1, stderr |-> RollbackArgsError(args, list),
        selectedTimestamp |-> NoSelection]
  ELSE [pc |-> "r_wait", exitCode |-> -1, stderr |-> "",
        selectedTimestamp |-> SelectedTimestamp(args, list)]

RollbackStarted(args, list) ==
  LET start == RollbackStart(args, list)
  IN /\ pc' = start.pc
     /\ exitCode' = start.exitCode
     /\ stderr' = start.stderr
     /\ selectedTimestamp' = start.selectedTimestamp

\* main up to the confirmation delay
RollbackMain(args) ==
  /\ pc \in {"idle", "exited"}
  /\ script' = "rollback"
  /\ RollbackStarted(args, listBackupFiles(backups))
  /\ pc' = "r_wait" => now < MaxRuns
  /\ FreshProcess
  /\ liftFile' = ""
  /\ doBackup' = FALSE
  /\ UNCHANGED <<dataVars, now, faults, snapshotOf>>

\* main, the five seconds of setTimeout and MongoClient.connect
RollbackConfirmDelay ==
  /\ pc = "r_wait"
  /\ now' = now + 1
  /\ pc' = "r_save_words"
  /\ UNCHANGED <<dataVars, faults, script, stderr, exitCode, uploadVars, timestamp,
                 selectedTimestamp, written, startStore, snapshotOf>>

SaveOutcomes == {"ok", "throws"}

\* saveCurrentState without its count > 0 test
SaveStepAlways(c, label, outcome) ==
  LET docs == store[c].docs
      path == BackupPath(c, Timestamp(now), label)
  IN /\ outcome # "ok" => docs # <<>> /\ faults < MaxFaults
     /\ faults' = IF outcome = "ok" THEN faults ELSE faults + 1
     /\ IF outcome = "ok"
        THEN /\ backups' = MapSet(backups, path, ToJsonFile(docs))
             /\ written' = written \cup {path}
        ELSE UNCHANGED <<backups, written>>

\* saveCurrentState, one try block: countDocuments, find, writeFileSync; the
\* catch logs "Could not save" and goes on
SaveStep(c, label, outcome) ==
  LET docs == store[c].docs
      path == BackupPath(c, Timestamp(now), label)
  IN /\ outcome # "ok" => docs # <<>> /\ faults < MaxFaults
     /\ faults' = IF outcome = "ok" THEN faults ELSE faults + 1
     /\ IF outcome = "ok" /\ docs # <<>>
        THEN /\ backups' = MapSet(backups, path, ToJsonFile(docs))
             /\ written' = written \cup {path}
        ELSE UNCHANGED <<backups, written>>

SaveCurrentStateWords(outcome) ==
  /\ pc = "r_save_words"
  /\ timestamp' = Timestamp(now)
  /\ SaveStep("words", "before-rollback", outcome)
  /\ pc' = "r_save_sentences"
  /\ UNCHANGED <<store, cache, now, script, stderr, exitCode, uploadVars, selectedTimestamp,
                 startStore, snapshotOf>>

SaveCurrentStateSentences(outcome) ==
  /\ pc = "r_save_sentences"
  /\ SaveStep("sentences", "before-rollback", outcome)
  /\ pc' = "r_delete_words"
  /\ UNCHANGED <<store, cache, now, script, stderr, exitCode, uploadVars, timestamp,
                 selectedTimestamp, startStore, snapshotOf>>

\* restoreFromBackup: await wordsCollection.deleteMany({})
RestoreDeleteWords ==
  /\ pc = "r_delete_words"
  /\ store' = DeleteMany(store, "words")
  /\ pc' = "r_delete_sentences"
  /\ UNCHANGED <<backups, cache, now, faults, script, stderr, exitCode, uploadVars, timestamp,
                 selectedTimestamp, written, startStore, snapshotOf>>

\* a restore that clears the sentences only when the snapshot has a file for
\* them
RestoreDeleteSentencesIfCovered ==
  /\ pc = "r_delete_sentences"
  /\ store' = IF BackupPath("sentences", selectedTimestamp, selectedTimestamp.label)
                   \in DOMAIN backups
              THEN DeleteMany(store, "sentences") ELSE store
  /\ pc' = "r_restore_words"
  /\ UNCHANGED <<backups, cache, now, faults, script, stderr, exitCode, uploadVars, timestamp,
                 selectedTimestamp, written, startStore, snapshotOf>>

\* restoreFromBackup: await sentencesCollection.deleteMany({})
RestoreDeleteSentences ==
  /\ pc = "r_delete_sentences"
  /\ store' = DeleteMany(store, "sentences")
  /\ pc' = "r_restore_words"
  /\ UNCHANGED <<backups, cache, now, faults, script, stderr, exitCode, uploadVars, timestamp,
                 selectedTimestamp, written, startStore, snapshotOf>>

\* what the server answers to the first createIndex of a restore: it builds
\* the index, or reports code 86 (an index of that name exists with other
\* options), or reports another error
CreateIndexOutcomes == {"ok", "exists", "fails"}

\* restoreFromBackup, one collection, with a catch that throws every
\* createIndex error again
RestoreStepRethrowsAll(c, outcome) ==
  LET path == BackupPath(c, selectedTimestamp, selectedTimestamp.label)
      inserted == InsertMany(store, c, backups[path])
  IN IF path \in DOMAIN backups /\ Len(backups[path]) > 0
     THEN IF outcome = "ok" THEN InsertAndIndex(c, backups[path])
          ELSE [threw |-> TRUE, store |-> inserted]
     ELSE [threw |-> FALSE, store |-> store]

\* restoreFromBackup, one collection: existsSync, JSON.parse(readFileSync),
\* insertMany, and createIndex for each standard index; a createIndex error
\* of code 86 is swallowed, any other is thrown again
RestoreStep(c, outcome) ==
  LET path == BackupPath(c, selectedTimestamp, selectedTimestamp.label)
      inserted == InsertMany(store, c, backups[path])
      rest == CreateIndexes(inserted, c, Tail(IndexesOf(c)))
  IN IF path \in DOMAIN backups /\ Len(backups[path]) > 0
     THEN CASE outcome = "ok" -> InsertAndIndex(c, backups[path])
            [] outcome = "exists" -> [threw |-> rest.threw, store |-> rest.store]
            [] outcome = "fails" -> [threw |-> TRUE, store |-> inserted]
     ELSE [threw |-> FALSE, store |-> store]

\* a createIndex call is reached and the server may answer it with an error:
\* code 86 needs an index of that name, which deleteMany has left in place
CreateIndexAnswer(c, outcome) ==
  LET path == BackupPath(c, selectedTimestamp, selectedTimestamp.label)
  IN outcome # "ok" =>
       /\ faults < MaxFaults
       /\ path \in DOMAIN backups /\ Len(backups[path]) > 0
       /\ ~InsertManyThrows(store, c, backups[path])
       /\ outcome = "exists" => Head(IndexesOf(c)) \in store[c].indexes

RestoreWords(outcome) ==
  /\ pc = "r_restore_words"
  /\ CreateIndexAnswer("words", outcome)
  /\ faults' = IF outcome = "ok" THEN faults ELSE faults + 1
  /\ LET r == RestoreStep("words", outcome)
     IN /\ store' = r.store
        /\ IF r.threw THEN Fail("Rollback failed")
           ELSE pc' = "r_restore_sentences" /\ UNCHANGED <<exitCode, stderr>>
  /\ UNCHANGED <<backups, cache, now, script, uploadVars, timestamp,
                 selectedTimestamp, written, startStore, snapshotOf>>

RestoreSentences(outcome) ==
  /\ pc = "r_restore_sentences"
  /\ CreateIndexAnswer("sentences", outcome)
  /\ faults' = IF outcome = "ok" THEN faults ELSE faults + 1
  /\ LET r == RestoreStep("sentences", outcome)
     IN /\ store' = r.store
        /\ IF r.threw THEN Fail("Rollback failed")
           ELSE pc' = "r_finish" /\ UNCHANGED <<exitCode, stderr>>
  /\ UNCHANGED <<backups, cache, now, script, uploadVars, timestamp,
                 selectedTimestamp, written, startStore, snapshotOf>>

\* main after the restore: the counts, the summary, process.exit(0)
RollbackFinish ==
  /\ pc = "r_finish"
  /\ Exit(0)
  /\ UNCHANGED <<dataVars, now, faults, script, stderr, uploadVars, timestamp,
                 selectedTimestamp, written, startStore, snapshotOf>>

\* ------------------------------------------------------- the environment
\* a cache file becomes unreadable between two runs (a torn write, a bad disk)
CorruptCacheFile(path) ==
  /\ pc \in {"idle", "exited"}
  /\ faults < MaxFaults
  /\ path \in DOMAIN cache
  /\ ~cache[path].corrupt
  /\ cache' = [cache EXCEPT ![path].corrupt = TRUE]
  /\ faults' = faults + 1
  /\ UNCHANGED <<store, backups, now, script, stderr, pc, exitCode, uploadVars, timestamp,
                 selectedTimestamp, written, startStore, snapshotOf>>

Next ==
  \/ \E args \in UploadArgs : UploadMain(args) /\ UNCHANGED <<callVars, zone>>
  \/ UploadConfirmDelay /\ UNCHANGED <<callVars, zone>>
  \/ \E outcome \in ExportOutcomes : UploadBackupWords(outcome) /\ UNCHANGED <<callVars, zone>>
  \/ \E outcome \in ExportOutcomes : UploadBackupSentences(outcome) /\ UNCHANGED <<callVars, zone>>
  \/ UploadDropWords /\ UNCHANGED <<callVars, zone>>
  \/ UploadDropSentences /\ UNCHANGED <<callVars, zone>>
  \/ UploadParse /\ UNCHANGED <<callVars, zone>>
  \/ \E providerOk \in BOOLEAN : UploadWordsStep(providerOk) /\ UNCHANGED <<callVars, zone>>
  \/ UploadWordsInsert /\ UNCHANGED <<callVars, zone>>
  \/ UploadSentencesExtract /\ UNCHANGED <<callVars, zone>>
  \/ \E providerOk \in BOOLEAN : UploadSentencesStep(providerOk) /\ UNCHANGED <<callVars, zone>>
  \/ UploadSentencesInsert /\ UNCHANGED <<callVars, zone>>
  \/ UploadFinish /\ UNCHANGED <<callVars, zone>>
  \/ \E args \in RollbackArgs : RollbackMain(args) /\ UNCHANGED <<callVars, zone>>
  \/ RollbackConfirmDelay /\ UNCHANGED <<callVars, zone>>
  \/ \E outcome \in SaveOutcomes : SaveCurrentStateWords(outcome) /\ UNCHANGED <<callVars, zone>>
  \/ \E outcome \in SaveOutcomes : SaveCurrentStateSentences(outcome) /\ UNCHANGED <<callVars, zone>>
  \/ RestoreDeleteWords /\ UNCHANGED <<callVars, zone>>
  \/ RestoreDeleteSentences /\ UNCHANGED <<callVars, zone>>
  \/ \E outcome \in CreateIndexOutcomes : RestoreWords(outcome) /\ UNCHANGED <<callVars, zone>>
  \/ \E outcome \in CreateIndexOutcomes : RestoreSentences(outcome) /\ UNCHANGED <<callVars, zone>>
  \/ RollbackFinish /\ UNCHANGED <<callVars, zone>>
  \/ \E path \in DOMAIN cache : CorruptCacheFile(path) /\ UNCHANGED <<callVars, zone>>

Spec == Init /\ [][Next]_vars

\* ------------------------------------------- a session across a clock change
\* daylight saving time ends between two runs: local time falls back while
\* UTC runs on, so toTimeString() repeats times of day it has already given
ClockFallBack ==
  /\ pc \in {"idle", "exited"}
  /\ zone = TzTicks
  /\ zone' = zone - 1
  /\ UNCHANGED <<dataVars, now, faults, script, pc, exitCode, stderr, uploadVars,
                 timestamp, selectedTimestamp, written, startStore, snapshotOf, callVars>>

NextClock == Next \/ ClockFallBack

SpecClock == Init /\ [][NextClock]_vars

\* ------------------------------------------- formatSource called on its own
\* the strings of at most MaxSourceLen characters over SourceChars
SourceChars == {"n", "N", "a", " ", "ü"}

SourceTexts ==
  UNION {[1..len -> SourceChars] : len \in 0..MaxSourceLen}

InitFormatSource ==
  /\ store = [c \in Colls |-> EmptyCollection]
  /\ cache = EmptyMap
  /\ backups = EmptyMap
  /\ snapshotOf = EmptyMap
  /\ InitProcess
  /\ call \in {[fn |-> "formatSource", source |-> source] : source \in SourceTexts}
  /\ returned = NoResult

CallFormatSource ==
  /\ call.fn = "formatSource"
  /\ ~returned.done
  /\ returned' = [done |-> TRUE, value |-> formatSource(call.source)]
  /\ UNCHANGED <<store, backups, cache, now, faults, script, pc, exitCode, stderr,
                 uploadVars, timestamp, selectedTimestamp, written, startStore,
                 snapshotOf, call, zone>>

NextFormatSource == CallFormatSource

SpecFormatSource == InitFormatSource /\ [][NextFormatSource]_vars

\* ------------------------------------ a session in which runs are cancelled
\* Ctrl+C during the five seconds of the confirmation delay: the process is
\* terminated by SIGINT where it waits
Cancel ==
  /\ pc \in {"u_wait", "r_wait"}
  /\ pc' = "exited"
  /\ exitCode' = 130
  /\ UNCHANGED <<dataVars, now, faults, script, stderr, uploadVars, timestamp,
                 selectedTimestamp, written, startStore, snapshotOf, callVars, zone>>

NextCancel == Next \/ Cancel

SpecCancel == Init /\ [][NextCancel]_vars

\* ------------------------------------------ extractEntries called on its own
\* an optional element or attribute set of the parsed tree: absent or present
Opt(S) == {<<>>} \cup {<<x>> : x \in S}

\* node.text || null of an optional element that holds its text directly
FormTextOf(forms) ==
  IF forms = <<>> \/ forms[1].text = <<>> THEN NullText ELSE forms[1].text[1]

\* node?.form?.text || null of an optional element that wraps a form
NestedTextOf(nodes) ==
  IF nodes = <<>> THEN NullText ELSE FormTextOf(nodes[1].form)

\* example.$?.source || null
SourceOf(example) ==
  IF example.attrs = <<>> THEN NullText ELSE example.attrs[1].source

extractExample(example) ==
  [Example(FormTextOf(example.form), NestedTextOf(example.translation),
           SourceOf(example))
     EXCEPT !.note = NestedTextOf(example.note)]

\* senseData; grammatical-info is read as sense['grammatical-info']?.$?.value
extractSense(sense) ==
  Sense(FormTextOf(sense.gloss), NestedTextOf(sense.definition),
        [k \in 1..Len(sense.example) |-> extractExample(sense.example[k])])

\* entryData; the traits are read under if (entry.trait) and if (trait.$)
extractEntry(entry) ==
  EntryData(entry.attrs[1].id, entry.attrs[1].dateModified,
            NestedTextOf(entry.lexical_unit),
            [k \in 1..Len(entry.sense) |-> extractSense(entry.sense[k])])

\* entry.$.id and sense.$.id read a property of undefined when the element
\* carries no attribute: a TypeError
ExtractThrows(entry) ==
  \/ entry.attrs = <<>>
  \/ \E k \in 1..Len(entry.sense) : entry.sense[k].attrs = <<>>

\* extractEntries: the falsy trees are skipped, the others extracted in order
extractEntries(xmlEntries) ==
  LET present == SelectSeq(xmlEntries, LAMBDA tree : tree # <<>>)
  IN IF \E k \in 1..Len(present) : ExtractThrows(present[k][1])
     THEN [threw |-> TRUE, value |-> <<>>]
     ELSE [threw |-> FALSE,
           value |-> [k \in 1..Len(present) |-> extractEntry(present[k][1])]]

\* the trees given to extractEntries: a complete entry, and the entries that
\* lack one optional element or one attribute set below the entry
XmlForm == [text |-> << S1 >>]

XmlNested == [form |-> << XmlForm >>]

FullExample ==
  [attrs |-> << [source |-> ByNN] >>, form |-> << XmlForm >>,
   translation |-> << XmlNested >>, note |-> << XmlNested >>]

XmlExamples ==
  {FullExample}
  \cup {[FullExample EXCEPT ![f] = <<>>] : f \in {"attrs", "form", "translation", "note"}}
  \cup {[FullExample EXCEPT !.form = << [text |-> <<>>] >>],
        [FullExample EXCEPT !.translation = << [form |-> <<>>] >>],
        [FullExample EXCEPT !.note = << [form |-> << [text |-> <<>>] >>] >>]}

FullSense(example) ==
  [attrs |-> << [id |-> "s1"] >>,
   grammatical_info |-> << [attrs |-> << [value |-> "Noun"] >>] >>,
   gloss |-> << XmlForm >>, definition |-> << XmlNested >>, example |-> << example >>]

XmlSenses ==
  {FullSense(example) : example \in XmlExamples}
  \cup {[FullSense(FullExample) EXCEPT ![f] = <<>>] :
          f \in {"attrs", "grammatical_info", "gloss", "definition", "example"}}
  \cup {[FullSense(FullExample) EXCEPT !.grammatical_info = << [attrs |-> <<>>] >>]}

FullXmlEntry(id, sense) ==
  [attrs |-> << [id |-> id, dateModified |-> "d1"] >>,
   lexical_unit |-> << XmlNested >>,
   trait |-> << [attrs |-> << [name |-> "morph-type", value |-> "stem"] >>] >>,
   sense |-> << sense >>]

XmlEntryIds == {"e1", "e2"}

XmlEntries ==
  {FullXmlEntry(id, sense) : id \in XmlEntryIds, sense \in XmlSenses}
  \cup {[FullXmlEntry("e1", FullSense(FullExample)) EXCEPT ![f] = <<>>] :
          f \in {"lexical_unit", "trait", "sense"}}
  \cup {[FullXmlEntry("e1", FullSense(FullExample))
           EXCEPT !.lexical_unit = << [form |-> <<>>] >>],
        [FullXmlEntry("e1", FullSense(FullExample))
           EXCEPT !.trait = << [attrs |-> <<>>] >>]}

\* the arrays of at most MaxEntries trees, a null among them or not
XmlInputs == UNION {[1..len -> Opt(XmlEntries)] : len \in 0..MaxEntries}

InitExtractEntries ==
  /\ store = [c \in Colls |-> EmptyCollection]
  /\ cache = EmptyMap
  /\ backups = EmptyMap
  /\ snapshotOf = EmptyMap
  /\ InitProcess
  /\ call \in {[fn |-> "extractEntries", xmlEntries |-> xmlEntries] :
                 xmlEntries \in XmlInputs}
  /\ returned = NoResult

CallExtractEntries ==
  /\ call.fn = "extractEntries"
  /\ ~returned.done
  /\ returned' = [done |-> TRUE, threw |-> extractEntries(call.xmlEntries).threw,
                  value |-> extractEntries(call.xmlEntries).value]
  /\ UNCHANGED <<store, backups, cache, now, faults, script, pc, exitCode, stderr,
                 uploadVars, timestamp, selectedTimestamp, written, startStore,
                 snapshotOf, call, zone>>

NextExtractEntries == CallExtractEntries

SpecExtractEntries == InitExtractEntries /\ [][NextExtractEntries]_vars

\* --------------------------- uploadWords of the upsert-based upload variant
\* entryData of that variant: lexeme_form and word are the same text
UpsertEntry(id, dateModified, form) ==
  [id |-> id, dateModified |-> dateModified, word |-> form, lexeme_form |-> form,
   senses |-> << Sense(<<"g", "a">>, NullText, <<>>) >>]

UpsertForms == {<<"w", "a">>, <<"w", "b">>}

UpsertEntries ==
  {UpsertEntry(id, dateModified, form) :
     id \in {"e1", "e2", "e3"}, dateModified \in {"d1", "d2"}, form \in UpsertForms}

\* the document of the $set of upsertWord, and the one an insert leaves
UpsertDoc(entry, t, createdAt) ==
  [id |-> entry.id, dateModified |-> entry.dateModified, word |-> entry.word,
   lexeme_form |-> entry.lexeme_form, senses |-> entry.senses,
   embedding |-> vectorToBinary(ProviderVector(TextToEmbedWord(entry), t)),
   updated_at |-> t, created_at |-> createdAt]

\* the filter { word, lexeme_form } of updateOne
UpsertMatches(doc, entry) ==
  doc.word = entry.word /\ doc.lexeme_form = entry.lexeme_form

\* an upsert whose filter is the entry id
upsertWordById(docs, entry, t) ==
  IF \E k \in 1..Len(docs) : docs[k].id = entry.id
  THEN LET first == CHOOSE k \in 1..Len(docs) :
                      /\ docs[k].id = entry.id
                      /\ \A n \in 1..(k - 1) : docs[n].id # entry.id
       IN [docs EXCEPT ![first] = UpsertDoc(entry, t, docs[first].created_at)]
  ELSE Append(docs, UpsertDoc(entry, t, t))

\* upsertWord: updateOne({ word, lexeme_form }, { $set, $setOnInsert },
\* { upsert: true }) rewrites the first document that matches, or inserts
upsertWord(docs, entry, t) ==
  IF \E k \in 1..Len(docs) : UpsertMatches(docs[k], entry)
  THEN LET first == CHOOSE k \in 1..Len(docs) :
                      /\ UpsertMatches(docs[k], entry)
                      /\ \A n \in 1..(k - 1) : ~UpsertMatches(docs[n], entry)
       IN [docs EXCEPT ![first] = UpsertDoc(entry, t, docs[first].created_at)]
  ELSE Append(docs, UpsertDoc(entry, t, t))

\* the words collection before the upload: empty, or one word of an earlier one
UpsertStores ==
  {<<>>} \cup {<< UpsertDoc(UpsertEntry("e1", "d1", form), 0, 0) >> : form \in UpsertForms}

InitUpsertWords ==
  /\ \E docs \in UpsertStores :
       store = [c \in Colls |->
                  IF c = "words" /\ docs # <<>>
                  THEN [exists |-> TRUE, docs |-> docs, indexes |-> {}]
                  ELSE EmptyCollection]
  /\ cache = EmptyMap
  /\ backups = EmptyMap
  /\ snapshotOf = EmptyMap
  /\ InitProcess
  /\ call \in {[fn |-> "uploadWords", entries |-> list] :
                 list \in UNION {[1..len -> UpsertEntries] : len \in 1..MaxEntries}}
  /\ returned = [done |-> FALSE, uploaded |-> 0]

\* one turn of the loop of uploadWords: await upsertWord(entry)
CallUpsertWord ==
  /\ call.fn = "uploadWords"
  /\ ~returned.done
  /\ returned.uploaded < Len(call.entries)
  /\ store' = [store EXCEPT
                 !["words"].exists = TRUE,
                 !["words"].docs = upsertWord(@, call.entries[returned.uploaded + 1], now + 1)]
  /\ now' = now + 1
  /\ returned' = [returned EXCEPT !.uploaded = @ + 1]
  /\ UNCHANGED <<backups, cache, faults, script, pc, exitCode, stderr, uploadVars,
                 timestamp, selectedTimestamp, written, startStore, snapshotOf,
                 call, zone>>

\* uploadWords returns after its last entry
ReturnUploadWords ==
  /\ call.fn = "uploadWords"
  /\ ~returned.done
  /\ returned.uploaded = Len(call.entries)
  /\ returned' = [returned EXCEPT !.done = TRUE]
  /\ UNCHANGED <<store, backups, cache, now, faults, script, pc, exitCode, stderr,
                 uploadVars, timestamp, selectedTimestamp, written, startStore,
                 snapshotOf, call, zone>>

NextUpsertWords == CallUpsertWord \/ ReturnUploadWords

SpecUpsertWords == InitUpsertWords /\ [][NextUpsertWords]_vars

\* ------------------------------- getWordOfTheDay under concurrent requests
\* the requests of the API that call getWordOfTheDay; `call` holds where each
\* stands between its awaits, `returned` what each has returned
Requests == 1..MaxRequests

WotdKey == "word_of_the_day"

WotdDoc(date, wordId) == [key |-> WotdKey, date |-> date, word_id |-> wordId]

\* new Date().toISOString().split('T')[0]
Today(t) == t \div DayLen

\* null, as getWordOfTheDay returns it
NoWord == ""

IdleRequest == [at |-> "idle", today |-> -1, word_id |-> NoWord]

NotReturned == [done |-> FALSE, today |-> -1, word_id |-> NoWord]

\* the positions of the documents of docs with the key word_of_the_day
WotdMatches(docs) == {k \in 1..Len(docs) : docs[k].key = WotdKey}

\* metadata.findOne({ key: 'word_of_the_day', date: today })
WotdFound(docs, today) == {k \in WotdMatches(docs) : docs[k].date = today}

Lowest(S) == CHOOSE k \in S : \A j \in S : k <= j

\* the $match stage of the aggregate: the words that have an example
WordsWithExamples(docs) ==
  {docs[k].id : k \in {j \in 1..Len(docs) :
                         \E s \in 1..Len(docs[j].senses) : docs[j].senses[s].examples # <<>>}}

\* getWordById: words.findOne({ id: wordId }), null when no word has the id
getWordById(docs, wordId) ==
  IF \E k \in 1..Len(docs) : docs[k].id = wordId THEN wordId ELSE NoWord

InitWordOfTheDay ==
  /\ \E words \in {<<>>, DeployedDocs("words")},
        docs \in {<<>>, << WotdDoc(0, "e1") >>},
        indexes \in {{}, {"key_1"}} :
       store = [c \in Colls \cup {"metadata"} |->
                  IF c = "metadata" THEN [exists |-> TRUE, docs |-> docs, indexes |-> indexes]
                  ELSE IF c = "words" /\ words # <<>>
                  THEN [exists |-> TRUE, docs |-> words, indexes |-> {}]
                  ELSE EmptyCollection]
  /\ cache = EmptyMap
  /\ backups = EmptyMap
  /\ snapshotOf = EmptyMap
  /\ InitProcess
  /\ call = [fn |-> "getWordOfTheDay", requests |-> [r \in Requests |-> IdleRequest]]
  /\ returned = [r \in Requests |-> NotReturned]

WotdUnchanged ==
  UNCHANGED <<backups, cache, faults, script, pc, exitCode, stderr, uploadVars, timestamp,
              selectedTimestamp, written, startStore, snapshotOf, zone>>

WotdAt(r, at) == call.fn = "getWordOfTheDay" /\ call.requests[r].at = at

\* the request goes on to position at with the word id it holds
WotdGoes(r, at, wordId) ==
  call' = [call EXCEPT !.requests[r].at = at, !.requests[r].word_id = wordId]

\* the call of request r returns wordId
WotdReturns(r, wordId) ==
  /\ WotdGoes(r, "returned", wordId)
  /\ returned' = [returned EXCEPT
                    ![r] = [done |-> TRUE, today |-> call.requests[r].today,
                            word_id |-> wordId]]

\* a request arrives: today is computed, then getCollections is awaited
WotdCall(r) ==
  /\ WotdAt(r, "idle")
  /\ call' = [call EXCEPT !.requests[r].at = "findOne", !.requests[r].today = Today(now)]
  /\ UNCHANGED <<store, now, returned>>
  /\ WotdUnchanged

\* await metadata.findOne({ key: 'word_of_the_day', date: today })
WotdFindOne(r) ==
  /\ WotdAt(r, "findOne")
  /\ LET found == WotdFound(store["metadata"].docs, call.requests[r].today)
     IN IF found # {}
        THEN WotdGoes(r, "getWordById", store["metadata"].docs[Lowest(found)].word_id)
        ELSE WotdGoes(r, "aggregate", NoWord)
  /\ UNCHANGED <<store, now, returned>>
  /\ WotdUnchanged

\* return await getWordById(wotd.word_id)
WotdGetWordById(r) ==
  /\ WotdAt(r, "getWordById")
  /\ WotdReturns(r, getWordById(store["words"].docs, call.requests[r].word_id))
  /\ UNCHANGED <<store, now>>
  /\ WotdUnchanged

\* await words.aggregate([$match, { $sample: { size: 1 } }, $project]):
\* any one word with examples, or null when there is none
WotdAggregate(r) ==
  /\ WotdAt(r, "aggregate")
  /\ LET candidates == WordsWithExamples(store["words"].docs)
     IN IF candidates = {}
        THEN WotdReturns(r, NoWord)
        ELSE /\ \E wordId \in candidates : WotdGoes(r, "updateOne", wordId)
             /\ UNCHANGED returned
  /\ UNCHANGED <<store, now>>
  /\ WotdUnchanged

\* await metadata.updateOne({ key }, { $set: { key, date: today, word_id } },
\* { upsert: true }): the first document with the key is updated; with no
\* such document one is inserted, in the same step when key carries a unique
\* index, and in a step of its own when it does not
WotdUpdateOne(r) ==
  /\ WotdAt(r, "updateOne")
  /\ LET docs == store["metadata"].docs
         doc == WotdDoc(call.requests[r].today, call.requests[r].word_id)
         matches == WotdMatches(docs)
     IN IF matches # {}
        THEN /\ store' = [store EXCEPT !["metadata"].docs[Lowest(matches)] = doc]
             /\ WotdReturns(r, call.requests[r].word_id)
        ELSE IF "key_1" \in store["metadata"].indexes
        THEN /\ store' = [store EXCEPT !["metadata"].docs = Append(docs, doc)]
             /\ WotdReturns(r, call.requests[r].word_id)
        ELSE /\ WotdGoes(r, "insert", call.requests[r].word_id)
             /\ UNCHANGED <<store, returned>>
  /\ UNCHANGED now
  /\ WotdUnchanged

\* the insert of an upsert that matched no document, key not being unique
WotdInsert(r) ==
  /\ WotdAt(r, "insert")
  /\ store' = [store EXCEPT
                 !["metadata"].docs =
                   Append(@, WotdDoc(call.requests[r].today, call.requests[r].word_id))]
  /\ WotdReturns(r, call.requests[r].word_id)
  /\ UNCHANGED now
  /\ WotdUnchanged

\* time passes while requests are in flight
WotdTick ==
  /\ call.fn = "getWordOfTheDay"
  /\ now < MaxTicks
  /\ now' = now + 1
  /\ UNCHANGED <<store, call, returned>>
  /\ WotdUnchanged

NextWordOfTheDay ==
  \/ \E r \in Requests : WotdCall(r)
  \/ \E r \in Requests : WotdFindOne(r)
  \/ \E r \in Requests : WotdGetWordById(r)
  \/ \E r \in Requests : WotdAggregate(r)
  \/ \E r \in Requests : WotdUpdateOne(r)
  \/ \E r \in Requests : WotdInsert(r)
  \/ WotdTick

SpecWordOfTheDay == InitWordOfTheDay /\ [][NextWordOfTheDay]_vars

\* ----------------------------------------------------------------- claims
RunFinished(name, code) == script = name /\ pc = "exited" /\ exitCode = code

BothEmpty(s) == \A c \in Colls : s[c].docs = <<>>

DropPc(c) == IF c = "words" THEN "u_drop_words" ELSE "u_drop_sentences"

DeletePc(c) == IF c = "words" THEN "r_delete_words" ELSE "r_delete_sentences"

\* C1: in an upload run with --backup, when the drop of a collection that
\* holds documents is reached, the file <collection>_<timestamp>.json of this
\* run has been written and holds all of these documents.
C1_SnapshotBeforeDrop ==
  \A c \in Colls :
    (script = "upload" /\ doBackup /\ pc = DropPc(c) /\ store[c].docs # <<>>) =>
      LET path == BackupPath(c, timestamp, "")
      IN /\ path \in written
         /\ path \in DOMAIN backups
         /\ backups[path] = ToJsonFile(store[c].docs)

\* C2: in a rollback run, when deleteMany of a collection that holds documents
\* is reached, the file <collection>_<timestamp>_before-rollback.json of this
\* run exists and holds all of these documents.
C2_SafetySnapshotBeforeDelete ==
  \A c \in Colls :
    (script = "rollback" /\ pc = DeletePc(c) /\ store[c].docs # <<>>) =>
      LET path == BackupPath(c, timestamp, "before-rollback")
      IN /\ path \in DOMAIN backups
         /\ backups[path] = ToJsonFile(store[c].docs)

\* C3: after a rollback to the timestamp of an upload run's snapshot step
\* that wrote a file for each collection holding documents, the words and
\* sentences collections hold exactly the documents that step found, every
\* modelled field equal to the original.
SnapshotTaken(ts) ==
  /\ ts \in DOMAIN snapshotOf
  /\ \A c \in Colls : snapshotOf[ts][c] # <<>> =>
       /\ BackupPath(c, ts, "") \in DOMAIN backups
       /\ Len(backups[BackupPath(c, ts, "")]) = Len(snapshotOf[ts][c])

C3_RoundTrip ==
  (RunFinished("rollback", 0) /\ SnapshotTaken(selectedTimestamp)) =>
    \A c \in Colls : store[c].docs = snapshotOf[selectedTimestamp][c]

C5_UnknownTimestampNoMutation ==
  [][(/\ pc \in {"idle", "exited"} /\ script' = "rollback" /\ faults' = faults
      /\ \E args \in RollbackArgs :
           /\ args.type = "timestamp"
           /\ args.timestamp \notin ListedTimestamps(backups)
           /\ RollbackStarted(args, listBackupFiles(backups))) =>
       /\ pc' = "exited" /\ exitCode' = 1 /\ stderr' # ""
       /\ store' = store /\ backups' = backups /\ written' = {}]_vars

C5_Witness ==
  /\ RunFinished("rollback", 1)
  /\ stderr = "Backup with timestamp not found"
  /\ ~BothEmpty(store)
  /\ backups # EmptyMap
  /\ store = startStore

\* the loop whose records `resolution` describes
WordsLoop == script = "upload" /\ pc \in {"u_words", "u_extract"}

SentencesLoop == script = "upload" /\ pc \in {"u_sentences", "u_finish"}

\* C6 as stated: in a --backup run, an entry whose id is in the prior snapshot
\* with the same dateModified costs no provider call, and the embedding put in
\* its document is the prior record's embedding.
C6_UnchangedEntryNoProviderCall ==
  (WordsLoop /\ doBackup) =>
    \A k \in 1..Len(resolution) :
      (/\ entries[k].id \in DOMAIN sourceWordsMap
       /\ sourceWordsMap[entries[k].id].dateModified = entries[k].dateModified) =>
        /\ resolution[k].provider = 0
        /\ documents[k].embedding = sourceWordsMap[entries[k].id].embedding

\* C6 as amended: in a --backup run, an entry whose id is in the prior snapshot
\* with the same dateModified and a non-null embedding is resolved by reuse:
\* no provider call, no cache lookup, and the embedding put in its document is
\* the prior record's embedding.
C6_UnchangedEntryWithEmbeddingReused ==
  (WordsLoop /\ doBackup) =>
    \A k \in 1..Len(resolution) :
      (/\ entries[k].id \in DOMAIN sourceWordsMap
       /\ sourceWordsMap[entries[k].id].dateModified = entries[k].dateModified
       /\ HasEmbedding(sourceWordsMap[entries[k].id])) =>
        /\ resolution[k].how = "reused"
        /\ resolution[k].provider = 0
        /\ resolution[k].found = "not looked up"
        /\ documents[k].embedding = sourceWordsMap[entries[k].id].embedding

C6_Witness ==
  /\ WordsLoop /\ doBackup
  /\ \E k \in 1..Len(resolution) :
       /\ entries[k].id \in DOMAIN sourceWordsMap
       /\ sourceWordsMap[entries[k].id].dateModified = entries[k].dateModified
       /\ HasEmbedding(sourceWordsMap[entries[k].id])
       /\ resolution[k].how = "reused"
       /\ documents[k].embedding = sourceWordsMap[entries[k].id].embedding

\* the text-to-embed of a word: lexical form, then the glosses, then the
\* definitions, nulls left out, joined by single spaces
C7_TextToEmbed(entry) ==
  LET NonNull(t) == t # NullText
  IN Join(SelectSeq(<<entry.word>> \o Glosses(entry) \o Definitions(entry), NonNull))

\* the word documents the store held when the run started that carry the id
\* of an entry under another dateModified
C7_Changed(entry) ==
  \E j \in 1..Len(startStore["words"].docs) :
    /\ startStore["words"].docs[j].id = entry.id
    /\ startStore["words"].docs[j].dateModified # entry.dateModified

\* C7: an entry the preceding run stored under another dateModified is never
\* resolved by reuse: its embedding goes through getCachedEmbedding with the
\* entry's current text-to-embed, and the document carries the vector of that
\* text's cache file (none when the provider call fails).
C7_ChangedEntryRecomputed ==
  WordsLoop =>
    \A k \in 1..Len(resolution) :
      C7_Changed(entries[k]) =>
        LET path == CachePath("words", C7_TextToEmbed(entries[k]))
        IN /\ resolution[k].how # "reused"
           /\ resolution[k].found # "not looked up"
           /\ resolution[k].text = C7_TextToEmbed(entries[k])
           /\ resolution[k].how = "computed" =>
                /\ path \in DOMAIN cache
                /\ cache[path].text = C7_TextToEmbed(entries[k])
                /\ documents[k].embedding = vectorToBinary(cache[path].embedding)
           /\ resolution[k].how = "failed" => documents[k].embedding = NoEmbedding

C7_Witness ==
  /\ WordsLoop /\ doBackup
  /\ \E k \in 1..Len(resolution) :
       /\ C7_Changed(entries[k])
       /\ entries[k].id \in DOMAIN sourceWordsMap
       /\ HasEmbedding(sourceWordsMap[entries[k].id])
       /\ resolution[k].how = "computed"
       /\ resolution[k].provider = 1
       /\ documents[k].embedding # sourceWordsMap[entries[k].id].embedding

\* the literal form texts of a run's examples
C8_FormTexts(es) ==
  {AllExamples(es)[k].example.form : k \in 1..Len(AllExamples(es))} \ {NullText}

RECURSIVE C8_FirstOccurrences(_)
C8_FirstOccurrences(ids) ==
  IF ids = <<>> THEN <<>>
  ELSE LET front == C8_FirstOccurrences(SubSeq(ids, 1, Len(ids) - 1))
       IN IF Contains(front, ids[Len(ids)]) THEN front
          ELSE Append(front, ids[Len(ids)])

\* the ids of the entries that contribute a text, in first-contribution order
C8_Contributors(es, text) ==
  LET HasText(p) == p.example.form = text
      pairs == SelectSeq(AllExamples(es), HasText)
  IN C8_FirstOccurrences([k \in 1..Len(pairs) |-> pairs[k].word_id])

\* C8: the sentence list uploadSentences builds from the run's entries has
\* exactly one record per distinct literal form text, with id the SHA-256 of
\* the text and word_ids the contributing entry ids, each once, in
\* first-contribution order.
C8_OneRecordPerText ==
  [][UploadSentencesExtract =>
       /\ pc' = "u_sentences"
       /\ Len(sentences') = Cardinality(C8_FormTexts(entries))
       /\ {sentences'[k].text : k \in 1..Len(sentences')} = C8_FormTexts(entries)
       /\ \A k \in 1..Len(sentences') :
            /\ sentences'[k].id = Sha256(sentences'[k].text)
            /\ sentences'[k].word_ids = C8_Contributors(entries, sentences'[k].text)]_vars

\* the step of a loop that resolves one embedding, its record and its result
C9_Resolved(c) ==
  /\ IF c = "words" THEN \E ok \in BOOLEAN : UploadWordsStep(ok)
     ELSE \E ok \in BOOLEAN : UploadSentencesStep(ok)
  /\ resolution'[Len(resolution')].found # "not looked up"

C9_Record == resolution'[Len(resolution')]

C9_Returned(c) ==
  IF c = "words" THEN documents'[Len(documents')].embedding
  ELSE sentences'[i + 1].embedding

\* C9: a getCachedEmbedding call for a text whose cache file is absent calls
\* the provider once and, when the provider answers, writes exactly the file
\* named by the SHA-256 of the text under the category and returns the
\* vector it holds; a call that finds a readable file returns the stored
\* vector, calls no provider and writes nothing.  (A provider that does not
\* answer is the case of C11.)
C9_MissThenHit ==
  [][\A c \in Colls :
       C9_Resolved(c) =>
         LET path == [cacheName |-> c, hash |-> Sha256(C9_Record.text)]
         IN /\ path = CachePath(c, C9_Record.text)
            /\ path \notin DOMAIN cache =>
                 /\ C9_Record.found = "absent"
                 /\ C9_Record.provider = 1
                 /\ C9_Record.how = "computed" =>
                      /\ DOMAIN cache' = DOMAIN cache \cup {path}
                      /\ \A other \in DOMAIN cache : cache'[other] = cache[other]
                      /\ cache'[path].text = C9_Record.text
                      /\ ~cache'[path].corrupt
                      /\ C9_Returned(c) = vectorToBinary(cache'[path].embedding)
            /\ (path \in DOMAIN cache /\ ~cache[path].corrupt) =>
                 /\ C9_Record.found = "readable"
                 /\ C9_Record.provider = 0
                 /\ C9_Record.how = "computed"
                 /\ cache' = cache
                 /\ C9_Returned(c) = vectorToBinary(cache[path].embedding)]_vars

\* a later run is served from the file an earlier run of the model wrote
C9_Witness ==
  /\ WordsLoop
  /\ \E k \in 1..Len(resolution) :
       LET path == CachePath("words", resolution[k].text)
       IN /\ resolution[k].found = "readable"
          /\ resolution[k].provider = 0
          /\ path \in DOMAIN cache
          /\ cache[path].embedding.gen >= 1
          /\ cache[path].embedding.gen < now
          /\ documents[k].embedding = vectorToBinary(cache[path].embedding)

\* C10: a getCachedEmbedding call that finds a cache file it cannot parse
\* calls the provider and does not end the run; when the provider answers,
\* the file is rewritten with the new vector and that vector is returned.
C10_CorruptFileIsMiss ==
  [][\A c \in Colls :
       (/\ C9_Resolved(c)
        /\ CachePath(c, C9_Record.text) \in DOMAIN cache
        /\ cache[CachePath(c, C9_Record.text)].corrupt) =>
         LET path == CachePath(c, C9_Record.text)
             vector == ProviderVector(C9_Record.text, now)
         IN /\ C9_Record.found = "corrupt"
            /\ C9_Record.provider = 1
            /\ pc' = pc /\ exitCode' = exitCode
            /\ C9_Record.how = "computed" =>
                 /\ cache' = [cache EXCEPT ![path] =
                                [text |-> C9_Record.text, embedding |-> vector,
                                 corrupt |-> FALSE]]
                 /\ cache[path].embedding # vector
                 /\ C9_Returned(c) = vectorToBinary(vector)]_vars

C10_Witness ==
  /\ SentencesLoop
  /\ \E k \in 1..Len(resolution) :
       LET path == CachePath("sentences", resolution[k].text)
       IN /\ resolution[k].found = "corrupt"
          /\ resolution[k].how = "computed"
          /\ resolution[k].provider = 1
          /\ ~cache[path].corrupt
          /\ cache[path].embedding = ProviderVector(resolution[k].text, now)
          /\ sentences[k].embedding = vectorToBinary(cache[path].embedding)

\* the step of a loop in which the provider call of one record fails
C11_ProviderFails(c) ==
  /\ IF c = "words" THEN UploadWordsStep(FALSE) ELSE UploadSentencesStep(FALSE)
  /\ resolution'[Len(resolution')].how = "failed"

\* the records of the running loop whose provider call failed
C11_Failed == {k \in 1..Len(resolution) : resolution[k].how = "failed"}

\* C11: a provider failure for one word or one sentence leaves the run in
\* its loop with the record kept without embedding; the insert that follows
\* the loop stores every record of the batch, the failed ones without
\* embedding, and the run goes on to its next stage (a batch with a repeated
\* id is rejected by the unique index whatever the provider did).
C11_ProviderFailureNotFatal ==
  [][/\ C11_ProviderFails("words") =>
          /\ pc' = pc /\ exitCode' = exitCode
          /\ Len(documents') = Len(documents) + 1
          /\ documents'[Len(documents')].id = entries[i + 1].id
          /\ ~HasEmbedding(documents'[Len(documents')])
     /\ C11_ProviderFails("sentences") =>
          /\ pc' = pc /\ exitCode' = exitCode
          /\ ~HasEmbedding(sentences'[i + 1])
          /\ Len(sentences') = Len(sentences)
     /\ (UploadWordsInsert /\ C11_Failed # {} /\ IdsDistinct(documents)) =>
          /\ pc' = "u_extract"
          /\ Len(resolution) = Len(entries)
          /\ store'["words"].docs = documents
          /\ \A k \in 1..Len(entries) :
               /\ store'["words"].docs[k].id = entries[k].id
               /\ k \in C11_Failed <=> ~HasEmbedding(store'["words"].docs[k])
     /\ (UploadSentencesInsert /\ C11_Failed # {}) =>
          /\ pc' = "u_finish"
          /\ Len(resolution) = Len(SentencesMap(entries).records)
          /\ store'["sentences"].docs = sentences
          /\ \A k \in 1..Len(sentences) :
               /\ store'["sentences"].docs[k].id = SentencesMap(entries).records[k].id
               /\ k \in C11_Failed <=> ~HasEmbedding(store'["sentences"].docs[k])]_vars

\* a run that lost the embedding of one word finished with exit code 0, the
\* word stored without embedding next to a word stored with one
C11_Witness ==
  /\ RunFinished("upload", 0)
  /\ store["words"].docs = documents
  /\ store["sentences"].docs = sentences
  /\ \E k, j \in 1..Len(documents) :
       /\ ~HasEmbedding(documents[k])
       /\ documents[k].created_at = Date(now)
       /\ HasEmbedding(documents[j])

\* a step of the upload run whose operation rejects up to the catch of main
C12_Throws ==
  \/ UploadParse /\ ~WellFormed(liftFile)
  \/ UploadWordsInsert /\ InsertAndIndex("words", documents).threw
  \/ UploadSentencesExtract /\ SentencesMap(entries).threw
  \/ UploadSentencesInsert /\ InsertAndIndex("sentences", sentences).threw

\* the run ends with both batches in the store
C12_BothInserted ==
  /\ UploadFinish
  /\ documents # <<>> /\ store["words"].docs = documents
  /\ sentences # <<>> /\ store["sentences"].docs = sentences

\* the arguments the claim names: no LIFT path, a path to no file, no
\* database name, no backup flag
C12_BadArgs(args) ==
  \/ args.lift = ""
  \/ args.lift \notin LiftFiles
  \/ ~args.db
  \/ args.backup = ""

\* a step in which the upload process starts
C12_Starts == pc \in {"idle", "exited"} /\ script' = "upload" /\ faults' = faults

C13_Starts == pc \in {"idle", "exited"} /\ script' = "rollback" /\ faults' = faults

\* the listed timestamps that sort after ts
C13_Newer(ts) == {other \in ListedTimestamps(backups) : TimestampBefore(ts, other)}

C14_Letters == {"n", "N", "a", "ü"}

\* the end of the word that starts at position p of s
RECURSIVE C14_WordEnd(_, _)
C14_WordEnd(s, p) ==
  IF p + 1 <= Len(s) /\ s[p + 1] \in C14_Letters THEN C14_WordEnd(s, p + 1) ELSE p

\* s from position p on, every word that is exactly "nn" replaced
RECURSIVE C14_ReplaceWords(_, _)
C14_ReplaceWords(s, p) ==
  IF p > Len(s) THEN <<>>
  ELSE IF s[p] \notin C14_Letters THEN <<s[p]>> \o C14_ReplaceWords(s, p + 1)
  ELSE LET q == C14_WordEnd(s, p)
           word == SubSeq(s, p, q)
       IN (IF word = <<"n", "n">> THEN NormaNelson ELSE word)
            \o C14_ReplaceWords(s, q + 1)

\* C14: formatSource returns its argument with every word that is exactly
\* "nn" replaced by "Norma Nelson" and everything else as it was: an "nn"
\* inside a longer word stays, a text without the word comes back unchanged,
\* and null or absent input gives the empty string.
C14_WholeWordOnly ==
  returned.done =>
    /\ returned.value = C14_ReplaceWords(call.source, 1)
    /\ call.source = NullText => returned.value = <<>>

\* C15: an upload run drops no collection before its source file has been
\* parsed and its entries extracted; in particular, at every point of a run
\* whose source file is malformed both collections are as the run found them.
C15_ParseBeforeDrop ==
  /\ (script = "upload" /\ pc \in {"u_drop_words", "u_drop_sentences"}) =>
       (WellFormed(liftFile) /\ entries = LiftContent(liftFile))
  /\ (script = "upload" /\ liftFile # "" /\ ~WellFormed(liftFile)) =>
       store = startStore

\* C16: a sentence whose embedding uploadSentences takes from the prior
\* snapshot costs no provider call and no cache lookup, and its text-to-embed
\* (text, a space, translation) is the text-to-embed of the prior record the
\* embedding comes from.
C16_SentenceReuseSameText ==
  SentencesLoop =>
    \A k \in 1..Len(resolution) :
      resolution[k].how = "reused" =>
        /\ resolution[k].provider = 0
        /\ resolution[k].found = "not looked up"
        /\ sentences[k].id \in DOMAIN sourceSentencesMap
        /\ sentences[k].embedding = sourceSentencesMap[sentences[k].id].embedding
        /\ TextToEmbedSentence(sentences[k])
             = TextToEmbedSentence(sourceSentencesMap[sentences[k].id])

\* an upload run that is past its drop step, or has ended past it
C17_PastDrop ==
  /\ script = "upload"
  /\ \/ pc \in {"u_parse", "u_words", "u_extract", "u_sentences", "u_finish"}
     \/ pc = "exited" /\ liftFile # ""

\* uploadWords has completed: the batch is stored under its unique index
C17_WordsInserted ==
  /\ documents # <<>>
  /\ Len(documents) = Len(entries)
  /\ store["words"].docs = documents
  /\ {WordIndexes[k] : k \in 1..Len(WordIndexes)} \subseteq store["words"].indexes

\* C17: in an upload run, sentences are derived or inserted only once every
\* word of the batch is stored, each with the embedding resolved for it; a
\* run whose uploadWords failed derives and inserts no sentence.
C17_WordsBeforeSentences ==
  C17_PastDrop =>
    /\ (pc \in {"u_sentences", "u_finish"} \/ sentences # <<>>
          \/ store["sentences"].docs # <<>>) =>
         C17_WordsInserted
    /\ ~C17_WordsInserted =>
         (sentences = <<>> /\ store["sentences"].docs = <<>>)

\* sentences are being resolved with both words of the batch in the store
C17_Witness ==
  /\ script = "upload" /\ pc = "u_sentences"
  /\ sentences # <<>>
  /\ C17_WordsInserted
  /\ Len(store["words"].docs) = 2
  /\ store["sentences"].docs = <<>>

\* uploadWords failed on its unique index and the run ended without sentences
C17_FailedWords ==
  /\ RunFinished("upload", 1)
  /\ liftFile = "dup.lift"
  /\ store["words"].docs # <<>>
  /\ "id_1" \notin store["words"].indexes
  /\ sentences = <<>> /\ store["sentences"].docs = <<>>

\* C18: the timestamp of a snapshot taken later is the larger string: every
\* file this run has written is listed after (newer than) every file that an
\* earlier run, at least one tick before, left in the backup directory.
C18_TimestampsSortable ==
  \A new \in written : \A old \in DOMAIN backups \ written :
    TimestampBefore(ListedTimestamp(old), ListedTimestamp(new))

\* C19: a file of the backup directory stays as it was written: no step of
\* any run removes it or changes what it holds.
C19_SnapshotsImmutable ==
  [][\A path \in DOMAIN backups :
       path \in DOMAIN backups' /\ backups'[path] = backups[path]]_vars

\* the restore step of collection c, given the server's answer to createIndex
C20_Restores(c, outcome) ==
  IF c = "words" THEN RestoreWords(outcome) ELSE RestoreSentences(outcome)

\* C20: the restore clears each collection with deleteMany, which leaves its
\* indexes in place; a createIndex answered with code 86 lets the restore go
\* on to its next step, and any other createIndex error ends the rollback
\* with exit code 1.
C20_IndexErrors ==
  [][/\ \A c \in Colls :
          (pc = DeletePc(c) /\ pc' # pc) =>
            /\ store'[c].indexes = store[c].indexes
            /\ store'[c].exists = store[c].exists
            /\ store'[c].docs = <<>>
     /\ \A c \in Colls :
          /\ C20_Restores(c, "exists") =>
               /\ pc' = (IF c = "words" THEN "r_restore_sentences" ELSE "r_finish")
               /\ exitCode' = exitCode /\ stderr' = stderr
               /\ store'[c].indexes = store[c].indexes
          /\ C20_Restores(c, "fails") =>
               /\ pc' = "exited" /\ exitCode' = 1 /\ stderr' = "Rollback failed"]_vars

\* the first run of a session, a rollback, ended with exit code 0 although
\* the server answered a createIndex with code 86: both save steps wrote
\* their file and no cache file was damaged, so the one fault is that answer
C20_Witness ==
  /\ RunFinished("rollback", 0)
  /\ now = 1 /\ faults = 1
  /\ \A path \in DOMAIN cache : ~cache[path].corrupt
  /\ \A c \in Colls : BackupPath(c, timestamp, "before-rollback") \in written
  /\ \A c \in Colls : store[c].docs # <<>> /\ Head(IndexesOf(c)) \in store[c].indexes

\* an upload run that met no words and no sentences collection
C21_FirstRun ==
  /\ script = "upload" /\ liftFile # ""
  /\ \A c \in Colls : ~startStore[c].exists

\* the steps of an upload run from its snapshot to its second drop, in order
C21_After(at) ==
  CASE at = "u_backup_words" -> "u_backup_sentences"
    [] at = "u_backup_sentences" -> "u_drop_words"
    [] at = "u_drop_words" -> "u_drop_sentences"
    [] at = "u_drop_sentences" -> "u_parse"

\* C21: on a first run, where neither collection exists, the snapshot steps
\* write no file and leave the reuse maps empty, the drops that fail are
\* swallowed, every one of these steps hands over to the next, and a run
\* that ends with exit code 0 has inserted its documents under their indexes.
C21_FirstRunNotAborted ==
  [][/\ (C21_FirstRun /\ pc \in {"u_backup_words", "u_backup_sentences",
                                 "u_drop_words", "u_drop_sentences"} /\ pc' # pc) =>
          /\ pc' = C21_After(pc)
          /\ exitCode' = -1 /\ stderr' = ""
          /\ backups' = backups /\ written' = {}
          /\ sourceWordsMap' = EmptyMap /\ sourceSentencesMap' = EmptyMap
          /\ BothEmpty(store')
     /\ (C21_FirstRun /\ pc = "u_finish" /\ pc' = "exited") =>
          /\ exitCode' = 0
          /\ store'["words"].docs = documents /\ documents # <<>>
          /\ store'["sentences"].docs = sentences /\ sentences # <<>>
          /\ \A c \in Colls :
               {IndexesOf(c)[k] : k \in 1..Len(IndexesOf(c))} = store'[c].indexes]_vars

\* a first run with --backup has ended with exit code 0 and a filled store
C21_Witness ==
  /\ C21_FirstRun /\ doBackup
  /\ RunFinished("upload", 0)
  /\ written = {} /\ backups = EmptyMap
  /\ ~BothEmpty(store)

\* the trees of the input that are not null, in input order
C22_Present == SelectSeq(call.xmlEntries, LAMBDA tree : tree # <<>>)

\* C22: extractEntries does not fail on any input in which only optional
\* elements or attribute sets below the entry are missing, and returns one
\* record per tree that is not null, in input order.
C22_ExtractNeverFails ==
  (call.fn = "extractEntries" /\ returned.done) =>
    /\ ~returned.threw
    /\ Len(returned.value) = Len(C22_Present)
    /\ \A k \in 1..Len(C22_Present) :
         returned.value[k].id = C22_Present[k][1].attrs[1].id

\* the same for the inputs in which every sense carries an attribute
C22_ExtractWithSenseAttributes ==
  (/\ call.fn = "extractEntries" /\ returned.done
   /\ \A k \in 1..Len(C22_Present) :
        \A n \in 1..Len(C22_Present[k][1].sense) :
          C22_Present[k][1].sense[n].attrs # <<>>) =>
    /\ ~returned.threw
    /\ Len(returned.value) = Len(C22_Present)
    /\ \A k \in 1..Len(C22_Present) :
         returned.value[k].id = C22_Present[k][1].attrs[1].id

\* the entries uploadWords has passed to upsertWord so far
C23_Uploaded == SubSeq(call.entries, 1, returned.uploaded)

\* the last uploaded entry with the lexical form of entry
C23_LastWithForm(form) ==
  LET last == CHOOSE k \in 1..Len(C23_Uploaded) :
                /\ C23_Uploaded[k].word = form
                /\ \A n \in (k + 1)..Len(C23_Uploaded) : C23_Uploaded[n].word # form
  IN C23_Uploaded[last]

\* C23: upsertWord finds a stored word by (word, lexeme_form): for every
\* lexical form uploaded so far the words collection holds one document, with
\* the id and data of the last uploaded entry of that form, whatever the ids
\* of the earlier ones.
C23_MergedByLexicalForm ==
  call.fn = "uploadWords" =>
    \A form \in {C23_Uploaded[k].word : k \in 1..Len(C23_Uploaded)} :
      LET docs == SelectSeq(store["words"].docs,
                            LAMBDA doc : doc.word = form /\ doc.lexeme_form = form)
      IN /\ Len(docs) = 1
         /\ docs[1].id = C23_LastWithForm(form).id
         /\ docs[1].dateModified = C23_LastWithForm(form).dateModified

\* two entries with distinct ids and one lexical form were uploaded into an
\* empty collection, which now holds one document
C23_Witness ==
  /\ call.fn = "uploadWords" /\ returned.done
  /\ Len(call.entries) = 2
  /\ call.entries[1].id # call.entries[2].id
  /\ call.entries[1].word = call.entries[2].word
  /\ Len(store["words"].docs) = 1
  /\ store["words"].docs[1].id = call.entries[2].id
  /\ store["words"].docs[1].created_at = 1

\* the processed word k carries the embedding of its prior record, which the
\* reuse test admits
C24_WordCarried(k) ==
  /\ documents[k].id \in DOMAIN sourceWordsMap
  /\ HasEmbedding(sourceWordsMap[documents[k].id])
  /\ sourceWordsMap[documents[k].id].dateModified = documents[k].dateModified
  /\ documents[k].embedding = sourceWordsMap[documents[k].id].embedding

\* the processed sentence k carries the embedding of its prior record
C24_SentenceCarried(k) ==
  /\ sentences[k].id \in DOMAIN sourceSentencesMap
  /\ HasEmbedding(sourceSentencesMap[sentences[k].id])
  /\ sentences[k].embedding = sourceSentencesMap[sentences[k].id].embedding

\* C24: at every step of both loops reusedEmbeddings is the number of
\* processed records that carry their prior record's embedding, newEmbeddings
\* the number of the other processed records that carry an embedding, and a
\* record without embedding is in neither count.
C24_CountersExact ==
  /\ WordsLoop =>
       /\ Len(documents) = i
       /\ reusedEmbeddings = Cardinality({k \in 1..i : C24_WordCarried(k)})
       /\ newEmbeddings =
            Cardinality({k \in 1..i : HasEmbedding(documents[k]) /\ ~C24_WordCarried(k)})
       /\ reusedEmbeddings + newEmbeddings =
            Cardinality({k \in 1..i : HasEmbedding(documents[k])})
  /\ SentencesLoop =>
       /\ reusedEmbeddings = Cardinality({k \in 1..i : C24_SentenceCarried(k)})
       /\ newEmbeddings =
            Cardinality({k \in 1..i : HasEmbedding(sentences[k]) /\ ~C24_SentenceCarried(k)})
       /\ reusedEmbeddings + newEmbeddings =
            Cardinality({k \in 1..i : HasEmbedding(sentences[k])})

\* the words loop has ended with one record reused, none computed and one
\* left without embedding
C24_Witness ==
  /\ WordsLoop /\ i = Len(entries) /\ i = 2
  /\ reusedEmbeddings = 1 /\ newEmbeddings = 0
  /\ C24_WordCarried(1)
  /\ ~HasEmbedding(documents[2])

\* C25: a run that passes its checks goes to the confirmation delay and
\* nowhere else; while it waits nothing in the store or the backup directory
\* changes, it leaves the wait only with the delay elapsed or terminated, and
\* a terminated run has changed neither; every step that changes the store
\* or the backup directory belongs to a run that is past its wait.
C25_NothingBeforeDelay ==
  [][/\ (pc \in {"idle", "exited"} /\ pc' \notin {"idle", "exited"}) =>
          /\ pc' \in {"u_wait", "r_wait"}
          /\ store' = store /\ backups' = backups
     /\ pc \in {"u_wait", "r_wait"} =>
          /\ store' = store /\ backups' = backups /\ written' = {}
          /\ \/ pc' = "exited" /\ exitCode' = 130 /\ now' = now
             \/ pc' \notin {"u_wait", "r_wait", "idle", "exited"} /\ now' = now + 1
     /\ (store' # store \/ backups' # backups) =>
          pc \notin {"idle", "exited", "u_wait", "r_wait"}]_vars

\* an upload over a filled store was terminated during its wait: the store
\* and the backup directory are as the run found them
C25_Witness ==
  /\ script = "upload" /\ pc = "exited" /\ exitCode = 130
  /\ liftFile = "v2.lift"
  /\ ~BothEmpty(store)
  /\ written = {}
  /\ DOMAIN backups = DOMAIN DeployedBackups

\* a rollback has ended that restored the before-rollback snapshot which the
\* first run of the session wrote, all of it, at tick 1: that run was a
\* rollback, and the state X it saved is the deployed store
C26_UndoneUndo ==
  /\ RunFinished("rollback", 0)
  /\ faults = 0
  /\ now = 2
  /\ selectedTimestamp.label = "before-rollback"
  /\ selectedTimestamp.date = Timestamp(1).date
  /\ selectedTimestamp.time = Timestamp(1).time

\* C26: after a rollback to a snapshot and a rollback to the before-rollback
\* snapshot of that first rollback, both collections hold exactly the
\* documents they held before the first rollback.
C26_UndoOfUndo ==
  C26_UndoneUndo => \A c \in Colls : store[c].docs = DeployedDocs(c)

\* what the two rollbacks do restore: these documents as JSON gives them back
C26_UndoOfUndoAsJson ==
  C26_UndoneUndo => \A c \in Colls : store[c].docs = ToJsonFile(DeployedDocs(c))

\* the selected snapshot has no file for collection c
C27_NotCovered(c) ==
  BackupPath(c, selectedTimestamp, selectedTimestamp.label) \notin DOMAIN backups

C27_RestorePc(c) == IF c = "words" THEN "r_restore_words" ELSE "r_restore_sentences"

\* C27: the restore clears both collections before it reads any file; the
\* step of a collection the snapshot has no file for leaves it empty and goes
\* on without an error, and the rollback ends with exit code 0 and that
\* collection empty.
C27_UncoveredCollectionEmptied ==
  [][/\ (pc = "r_delete_sentences" /\ pc' # pc) => BothEmpty(store')
     /\ \A c \in Colls :
          (pc = C27_RestorePc(c) /\ pc' # pc /\ C27_NotCovered(c)) =>
            /\ store' = store /\ store'[c].docs = <<>>
            /\ pc' = (IF c = "words" THEN "r_restore_sentences" ELSE "r_finish")
            /\ exitCode' = exitCode /\ stderr' = stderr
     /\ (pc = "r_finish" /\ pc' = "exited") =>
          /\ exitCode' = 0 /\ stderr' = ""
          /\ \A c \in Colls : C27_NotCovered(c) => store'[c].docs = <<>>]_vars

\* a rollback to a snapshot with a words file only has ended with exit code
\* 0: the words are restored and the sentences the run found are gone
C27_Witness ==
  /\ RunFinished("rollback", 0)
  /\ ~C27_NotCovered("words") /\ C27_NotCovered("sentences")
  /\ startStore["sentences"].docs # <<>>
  /\ store["sentences"].docs = <<>>
  /\ store["words"].docs # <<>>

\* the step of an embedding loop that resolves one more record
C28_Resolved ==
  /\ pc \in {"u_words", "u_sentences"}
  /\ Len(resolution') = Len(resolution) + 1

C28_Coll == IF pc = "u_words" THEN "words" ELSE "sentences"

C28_Record == resolution'[Len(resolution')]

\* the document that step has built
C28_NewDoc == IF pc = "u_words" THEN documents'[Len(documents')] ELSE sentences'[i + 1]

\* the run found the record with this id stored, and stored without embedding
C28_StoredWithout(c, id) ==
  /\ \E k \in 1..Len(startStore[c].docs) : startStore[c].docs[k].id = id
  /\ \A k \in 1..Len(startStore[c].docs) :
       startStore[c].docs[k].id = id => startStore[c].docs[k].embedding = NoEmbedding

\* the cache holds a file that parses for the text of the record
C28_CacheFileReadable ==
  LET path == CachePath(C28_Coll, C28_Record.text)
  IN path \in DOMAIN cache /\ ~cache[path].corrupt

\* a failed provider call writes no cache file and gives a document without
\* embedding, and insertMany stores the documents as the loop built them
C28_FailureLeavesNoResult ==
  /\ (C28_Resolved /\ C28_Record.how = "failed") =>
       /\ C28_Record.provider = 1
       /\ cache' = cache
       /\ C28_NewDoc.embedding = NoEmbedding
  /\ (pc = "u_words" /\ pc' = "u_extract") => store'["words"].docs = documents
  /\ (pc = "u_sentences" /\ pc' = "u_finish") => store'["sentences"].docs = sentences

\* C28: a failed provider call writes no cache file and the record is stored
\* without embedding; the next upload run does not reuse the record, does not
\* serve it from the cache and calls the provider for it again. It is stated
\* of the first record of the run with its text, so that no file the run
\* itself wrote is in the way.
C28_FailedAlwaysRecomputed ==
  [][/\ C28_FailureLeavesNoResult
     /\ (C28_Resolved /\ C28_StoredWithout(C28_Coll, C28_Record.id)
          /\ \A k \in 1..Len(resolution) : resolution[k].text # C28_Record.text) =>
          /\ C28_Record.how # "reused"
          /\ ~C28_CacheFileReadable
          /\ C28_Record.provider = 1]_vars

\* C28 as the code has it: a failed provider call writes no cache file and the
\* record is stored without embedding; the next upload run does not reuse the
\* record, and it calls the provider for it again unless the cache holds a
\* file for the text of the record, which is then the result of a provider
\* call that succeeded.
C28_FailedRecomputedUnlessCached ==
  [][/\ C28_FailureLeavesNoResult
     /\ (C28_Resolved /\ C28_StoredWithout(C28_Coll, C28_Record.id)) =>
          /\ C28_Record.how # "reused"
          /\ ~C28_CacheFileReadable => C28_Record.provider = 1
          /\ C28_CacheFileReadable =>
               /\ C28_Record.provider = 0
               /\ cache[CachePath(C28_Coll, C28_Record.text)].embedding # NoVector]_vars

\* the second upload of v2.lift with --backup has resolved the entry whose
\* provider call failed in the first: the prior snapshot holds it unchanged
\* and without embedding, the cache had no file for it, the provider was
\* called and answered
C28_Witness ==
  /\ script = "upload" /\ pc = "u_words" /\ doBackup
  /\ faults > 0
  /\ \E k \in 1..Len(resolution) :
       /\ C28_StoredWithout("words", resolution[k].id)
       /\ resolution[k].id \in DOMAIN sourceWordsMap
       /\ sourceWordsMap[resolution[k].id].dateModified = documents[k].dateModified
       /\ resolution[k].how = "computed"
       /\ resolution[k].found = "absent"
       /\ resolution[k].provider = 1
       /\ documents[k].embedding # NoEmbedding

\* an upload of a LIFT file has ended with exit code 0
C29_Successful == RunFinished("upload", 0) /\ liftFile \in LiftFiles

\* the distinct texts of the examples of a LIFT file
C29_ExampleTexts(file) ==
  UNION {UNION {{LiftContent(file)[e].senses[s].examples[x].form :
                   x \in 1..Len(LiftContent(file)[e].senses[s].examples)} :
                s \in 1..Len(LiftContent(file)[e].senses)} :
         e \in 1..Len(LiftContent(file))} \ {NullText}

C30_StableWithinDate ==
  /\ \A a, b \in Requests :
       (/\ returned[a].done /\ returned[b].done
        /\ returned[a].today = returned[b].today
        /\ returned[a].word_id # NoWord) =>
         returned[b].word_id = returned[a].word_id
  /\ Cardinality({k \in 1..Len(store["metadata"].docs) :
                    store["metadata"].docs[k].key = "word_of_the_day"}) <= 1

\* what the unique index of upload.js on key does give: while it exists the
\* collection never holds two documents with the key
C30_SingleDocumentWithIndex ==
  "key_1" \in store["metadata"].indexes =>
    Cardinality({k \in 1..Len(store["metadata"].docs) :
                   store["metadata"].docs[k].key = "word_of_the_day"}) <= 1

====
